---- MODULE Spec2Model ----
(***************************************************************************)
(* PCD-Lite: query interpretation (app/mapping.py), ranking and A/B        *)
(* assignment (app/recs.py) over the movie catalog (app/data_loader.py).   *)
(*                                                                         *)
(* Text is modelled by TLA+ strings, read character by character with      *)
(* SubSeq.  Real-valued scores are kept in fixed point, in units of 1/600  *)
(* (the least unit in which every constant of the two strategies and the   *)
(* half-minute midpoints of the runtime boost are integers).               *)
(***************************************************************************)
EXTENDS Integers, Sequences, FiniteSets, TLC

VARIABLES
    str_hash,         \* the interpreter's salted str hash of this process
    last_call,        \* the latest assign_variant call and what it returned
    prev_call,        \* the assign_variant call before it
    catalog,          \* DataLoader.catalog
    tfidf_matrix,     \* RecommendationEngine.tfidf_matrix
    rec_call,         \* the latest get_recommendations call (arguments)
    filtered_movies,  \* the candidates that call got from _filter_movies
    recommendations,  \* what it returned
    scored_movies,    \* the (movie, score) list its strategy built, before the sort
    search_results,   \* what the latest DataLoader.search_movies call returned
    boost_call,       \* the latest _calculate_vibe_boost call and what it returned
    query,            \* the latest parse_query argument
    parsed,           \* the ParsedFilters it returned
    mapper_filters,   \* the ParsedFilters object given to normalize_filters
    normalized,       \* the dict normalize_filters returned
    voice_text,       \* the latest process_voice_query argument
    voice_result,     \* the dict it returned
    request_count,    \* how many requests the service has taken
    events_db,        \* EventStore: the rows of the events table
    events_csv,       \* EventStore: the rows of the CSV log
    last_query_info,  \* main.last_query_info
    log_calls,        \* EventStore.log_event: the events it was given, with what it returned
    response          \* what the latest /search request was answered

assignVars == <<str_hash, last_call, prev_call>>
engineVars == <<catalog, tfidf_matrix>>
recVars == <<rec_call, filtered_movies, recommendations, scored_movies, search_results>>
parseVars == <<query, parsed>>
mapperVars == <<mapper_filters, normalized>>
voiceVars == <<voice_text, voice_result>>
apiVars == <<request_count, events_db, events_csv, last_query_info, log_calls, response>>
boostVars == <<boost_call>>

vars == <<assignVars, engineVars, recVars, parseVars, mapperVars, voiceVars, apiVars,
          boostVars>>

\* Optional[T]: None is the empty tuple, a present value v is <<v>>
None == <<>>
Some(v) == <<v>>

(***************************************************************************)
(* str methods                                                             *)
(***************************************************************************)
Char(s, i) == SubSeq(s, i, i)

\* sub in s
Contains(sub, s) ==
    \/ Len(sub) = 0
    \/ \E i \in 1..(Len(s) - Len(sub) + 1) : SubSeq(s, i, i + Len(sub) - 1) = sub

\* s[i:].startswith(lit), i a 1-based position
StartsAt(s, i, lit) ==
    /\ i + Len(lit) - 1 <= Len(s)
    /\ SubSeq(s, i, i + Len(lit) - 1) = lit

UpperCase == "ABCDEFGHIJKLMNOPQRSTUVWXYZ"
LowerCase == "abcdefghijklmnopqrstuvwxyz"

LowerTable == [c \in {Char(UpperCase, k) : k \in 1..26} |->
                  Char(LowerCase, CHOOSE k \in 1..26 : Char(UpperCase, k) = c)]

LowerChar(c) == IF c \in DOMAIN LowerTable THEN LowerTable[c] ELSE c

RECURSIVE Lower(_)
\* s.lower(), halving the string to keep the evaluation shallow
Lower(s) ==
    IF Len(s) = 0 THEN ""
    ELSE IF Len(s) = 1 THEN LowerChar(s)
    ELSE LET half == Len(s) \div 2
         IN  Lower(SubSeq(s, 1, half)) \o Lower(SubSeq(s, half + 1, Len(s)))

\* [f(x) for x in xs]
LowerAll(xs) == [i \in 1..Len(xs) |-> Lower(xs[i])]

\* x in xs, xs a list
InList(x, xs) == \E i \in 1..Len(xs) : xs[i] = x

\* xs[:limit], Python slice semantics (a negative limit counts from the end)
SliceTo(xs, limit) ==
    LET n == Len(xs)
        stop == IF limit >= 0
                THEN (IF limit < n THEN limit ELSE n)
                ELSE (IF n + limit > 0 THEN n + limit ELSE 0)
    IN  SubSeq(xs, 1, stop)

(***************************************************************************)
(* schema.RecommendationStrategy                                           *)
(***************************************************************************)
POPULARITY == "A"
SIMILARITY == "B"

(***************************************************************************)
(* RecommendationEngine.assign_variant                                     *)
(*                                                                         *)
(* hash(session_id) is the interpreter's str hash.  It is keyed by a       *)
(* secret drawn when the process starts (hash randomization), so within a  *)
(* process it is a function of the characters, and across processes it is  *)
(* any such function.  The empty string hashes to 0 under every key.       *)
(***************************************************************************)
SessionIds == {"", "a", "b", "test-session-123"}
HashValues == {-3, 0, 2, 5}

StrHashes == {h \in [SessionIds -> HashValues] : h[""] = 0}

\* the tag handed out by alternation instead of by the identifier's hash
assign_variant_round_robin(session_id) ==
    IF last_call.variant = POPULARITY THEN SIMILARITY ELSE POPULARITY

assign_variant(session_id) ==
    LET hash_value == str_hash[session_id] % 2
    IN  IF hash_value = 0 THEN POPULARITY ELSE SIMILARITY

NoCall == [session_id |-> "", variant |-> "none", process |-> "none"]

\* a recorded call, seen from the process that follows a restart
Earlier(call) ==
    IF call = NoCall THEN call ELSE [call EXCEPT !.process = "earlier"]

AssignVariant(session_id) ==
    /\ prev_call' = last_call
    /\ last_call' = [session_id |-> session_id,
                     variant |-> assign_variant(session_id),
                     process |-> "current"]
    /\ UNCHANGED <<str_hash, engineVars, recVars, parseVars, mapperVars, voiceVars, apiVars, boostVars>>

\* the service process ends and a new interpreter starts
Restart ==
    /\ str_hash' \in StrHashes
    /\ last_call' = Earlier(last_call)
    /\ prev_call' = Earlier(prev_call)
    /\ UNCHANGED <<engineVars, recVars, parseVars, mapperVars, voiceVars, apiVars, boostVars>>

(***************************************************************************)
(* DataLoader: the catalog.  Four rows of the sample catalog; popularity   *)
(* is held in tenths (85 is 8.5).                                          *)
(***************************************************************************)
SampleCatalog == <<
    [id |-> 1, title |-> "Forrest Gump",
     genre |-> <<"Drama", "Comedy", "Romance">>,
     cast |-> <<"Tom Hanks", "Robin Wright", "Gary Sinise">>,
     overview |-> "The story of a simple man who unwittingly becomes involved in several historical events.",
     runtime |-> 142, popularity |-> 85, release_year |-> 1994],
    [id |-> 3, title |-> "The Godfather",
     genre |-> <<"Drama", "Crime">>,
     cast |-> <<"Marlon Brando", "Al Pacino", "James Caan">>,
     overview |-> "The aging patriarch of an organized crime dynasty transfers control to his reluctant son.",
     runtime |-> 175, popularity |-> 90, release_year |-> 1972],
    [id |-> 5, title |-> "The Dark Knight",
     genre |-> <<"Action", "Crime", "Drama">>,
     cast |-> <<"Christian Bale", "Heath Ledger", "Aaron Eckhart">>,
     overview |-> "When the menace known as the Joker wreaks havoc on Gotham, Batman must accept one of the greatest psychological tests.",
     runtime |-> 152, popularity |-> 90, release_year |-> 2008],
    [id |-> 9, title |-> "The Matrix",
     genre |-> <<"Action", "Sci-Fi">>,
     cast |-> <<"Keanu Reeves", "Laurence Fishburne", "Carrie-Anne Moss">>,
     overview |-> "A computer hacker learns about the true nature of reality and his role in the war against its controllers.",
     runtime |-> 136, popularity |-> 87, release_year |-> 1999] >>

\* DataLoader.get_all_movies
get_all_movies == catalog

(***************************************************************************)
(* RecommendationEngine._filter_movies                                     *)
(***************************************************************************)
\* any(x.lower() in [y.lower() for y in have] for x in wanted)
AnyWantedIn(wanted, have) ==
    \E i \in 1..Len(wanted) : InList(Lower(wanted[i]), LowerAll(have))

\* any(keyword in overview.lower() for keyword in keywords), keywords lowered
AnyKeywordIn(keywords, overview) ==
    LET overview_lower == Lower(overview)
    IN  \E i \in 1..Len(keywords) : Contains(Lower(keywords[i]), overview_lower)

\* the filter asking for every keyword where the code asks for any
filter_movies_all_keywords(filters) ==
    LET KeepGenre(m) == AnyWantedIn(filters.genres, m.genre)
        KeepActor(m) == AnyWantedIn(filters.actors, m.cast)
        KeepBounds(m) ==
            /\ filters.runtime_min # None => m.runtime >= filters.runtime_min[1]
            /\ filters.runtime_max # None => m.runtime <= filters.runtime_max[1]
            /\ filters.year_min # None => m.release_year >= filters.year_min[1]
            /\ filters.year_max # None => m.release_year <= filters.year_max[1]
        KeepKeywords(m) ==
            \A i \in 1..Len(filters.keywords) :
                Contains(Lower(filters.keywords[i]), Lower(m.overview))
        Keep(m) ==
            /\ filters.genres # <<>> => KeepGenre(m)
            /\ filters.actors # <<>> => KeepActor(m)
            /\ KeepBounds(m)
            /\ KeepKeywords(m)
    IN  SelectSeq(get_all_movies, Keep)

filter_movies(filters) ==
    LET all_movies == get_all_movies
        KeepGenre(m) == AnyWantedIn(filters.genres, m.genre)
        KeepActor(m) == AnyWantedIn(filters.actors, m.cast)
        KeepRuntimeMin(m) == m.runtime >= filters.runtime_min[1]
        KeepRuntimeMax(m) == m.runtime <= filters.runtime_max[1]
        KeepYearMin(m) == m.release_year >= filters.year_min[1]
        KeepYearMax(m) == m.release_year <= filters.year_max[1]
        KeepKeyword(m) == AnyKeywordIn(filters.keywords, m.overview)
        f1 == IF filters.genres # <<>> THEN SelectSeq(all_movies, KeepGenre) ELSE all_movies
        f2 == IF filters.actors # <<>> THEN SelectSeq(f1, KeepActor) ELSE f1
        f3 == IF filters.runtime_min # None THEN SelectSeq(f2, KeepRuntimeMin) ELSE f2
        f4 == IF filters.runtime_max # None THEN SelectSeq(f3, KeepRuntimeMax) ELSE f3
        f5 == IF filters.year_min # None THEN SelectSeq(f4, KeepYearMin) ELSE f4
        f6 == IF filters.year_max # None THEN SelectSeq(f5, KeepYearMax) ELSE f5
        f7 == IF filters.keywords # <<>> THEN SelectSeq(f6, KeepKeyword) ELSE f6
    IN  f7

\* Python truth value of an Optional[int] and of an Optional[str]
TruthyInt(v) == v # None /\ v[1] # 0
TruthyStr(v) == v # None /\ v[1] # ""

(***************************************************************************)
(* DataLoader.search_movies: filters.get(key) is the truth value of the    *)
(* field, so an empty list, None and 0 all skip the step                   *)
(***************************************************************************)
search_movies(filters) ==
    LET results == catalog
        KeepGenre(m) == AnyWantedIn(filters.genres, m.genre)
        KeepActor(m) == AnyWantedIn(filters.actors, m.cast)
        KeepRuntimeMin(m) == m.runtime >= filters.runtime_min[1]
        KeepRuntimeMax(m) == m.runtime <= filters.runtime_max[1]
        KeepYearMin(m) == m.release_year >= filters.year_min[1]
        KeepYearMax(m) == m.release_year <= filters.year_max[1]
        KeepKeyword(m) == AnyKeywordIn(filters.keywords, m.overview)
        r1 == IF filters.genres # <<>> THEN SelectSeq(results, KeepGenre) ELSE results
        r2 == IF filters.actors # <<>> THEN SelectSeq(r1, KeepActor) ELSE r1
        r3 == IF TruthyInt(filters.runtime_min) THEN SelectSeq(r2, KeepRuntimeMin) ELSE r2
        r4 == IF TruthyInt(filters.runtime_max) THEN SelectSeq(r3, KeepRuntimeMax) ELSE r3
        r5 == IF TruthyInt(filters.year_min) THEN SelectSeq(r4, KeepYearMin) ELSE r4
        r6 == IF TruthyInt(filters.year_max) THEN SelectSeq(r5, KeepYearMax) ELSE r5
        r7 == IF filters.keywords # <<>> THEN SelectSeq(r6, KeepKeyword) ELSE r6
    IN  r7

(***************************************************************************)
(* RecommendationEngine._calculate_vibe_boost                              *)
(* Scores are integers in units of 1/600.                                  *)
(***************************************************************************)
boost_vibe_keywords ==
    ("funny" :> <<"comedy", "funny", "hilarious", "humor", "laugh">>) @@
    ("serious" :> <<"drama", "serious", "emotional", "intense", "heavy">>) @@
    ("romantic" :> <<"romance", "romantic", "love", "romantic comedy">>) @@
    ("exciting" :> <<"action", "thriller", "adventure", "exciting", "thrilling">>) @@
    ("scary" :> <<"horror", "scary", "frightening", "terrifying">>) @@
    ("thought-provoking" :> <<"drama", "biography", "history", "philosophical">>) @@
    ("light" :> <<"comedy", "family", "romance", "fun", "entertaining">>) @@
    ("dark" :> <<"crime", "thriller", "drama", "gritty", "intense">>)

VIBE_GENRE_BOOST == 300
VIBE_OVERVIEW_BOOST == 60
VIBE_BOOST_CAP == 600

Min(a, b) == IF a < b THEN a ELSE b
Max(a, b) == IF a > b THEN a ELSE b
Abs(a) == IF a < 0 THEN -a ELSE a

\* the boost without the cap of its last line
calculate_vibe_boost_uncapped(movie, vibe) ==
    IF vibe \notin DOMAIN boost_vibe_keywords THEN 0
    ELSE
        LET keywords == boost_vibe_keywords[vibe]
            genre_hits == {g \in 1..Len(movie.genre) :
                              \E k \in 1..Len(keywords) :
                                  Contains(keywords[k], Lower(movie.genre[g]))}
            overview_hits == {k \in 1..Len(keywords) :
                                 Contains(keywords[k], Lower(movie.overview))}
        IN  VIBE_GENRE_BOOST * Cardinality(genre_hits)
            + VIBE_OVERVIEW_BOOST * Cardinality(overview_hits)

calculate_vibe_boost(movie, vibe) ==
    IF vibe \notin DOMAIN boost_vibe_keywords THEN 0
    ELSE
        LET keywords == boost_vibe_keywords[vibe]
            genre_hits == {g \in 1..Len(movie.genre) :
                              \E k \in 1..Len(keywords) :
                                  Contains(keywords[k], Lower(movie.genre[g]))}
            overview_lower == Lower(movie.overview)
            overview_hits == {k \in 1..Len(keywords) :
                                 Contains(keywords[k], overview_lower)}
            boost == VIBE_GENRE_BOOST * Cardinality(genre_hits)
                     + VIBE_OVERVIEW_BOOST * Cardinality(overview_hits)
        IN  Min(boost, VIBE_BOOST_CAP)

(***************************************************************************)
(* Sorting: list.sort(key=score, reverse=True) is stable, so entries of    *)
(* equal score keep their order.  Entries are <<movie, score>> pairs.      *)
(***************************************************************************)
\* pair put before the entries of its own score
InsertDescBeforeTies(sorted, pair) ==
    LET before == {i \in 1..Len(sorted) : sorted[i][2] > pair[2]}
        k == Cardinality(before)
    IN  SubSeq(sorted, 1, k) \o <<pair>> \o SubSeq(sorted, k + 1, Len(sorted))

\* pair put behind every entry whose score is not below its own
InsertDesc(sorted, pair) ==
    LET before == {i \in 1..Len(sorted) : sorted[i][2] >= pair[2]}
        k == Cardinality(before)
    IN  SubSeq(sorted, 1, k) \o <<pair>> \o SubSeq(sorted, k + 1, Len(sorted))

\* the sort without reverse=True: ascending
SortAscending(pairs) ==
    LET Place(i) == Cardinality({j \in 1..Len(pairs) :
                        \/ pairs[j][2] < pairs[i][2]
                        \/ pairs[j][2] = pairs[i][2] /\ j <= i})
    IN  [k \in 1..Len(pairs) |-> pairs[CHOOSE i \in 1..Len(pairs) : Place(i) = k]]

RECURSIVE SortDescFrom(_, _, _)
SortDescFrom(pairs, i, sorted) ==
    IF i > Len(pairs) THEN sorted
    ELSE SortDescFrom(pairs, i + 1, InsertDesc(sorted, pairs[i]))

SortDesc(pairs) == SortDescFrom(pairs, 1, <<>>)

\* [movie for movie, score in pairs]
Movies(pairs) == [i \in 1..Len(pairs) |-> pairs[i][1]]

\* sum(1 for x in wanted if x.lower() in [y.lower() for y in have])
CountWantedIn(wanted, have) ==
    Cardinality({i \in 1..Len(wanted) : InList(Lower(wanted[i]), LowerAll(have))})

(***************************************************************************)
(* RecommendationEngine._popularity_strategy                               *)
(***************************************************************************)
POPULARITY_UNIT == 60
POP_GENRE_BOOST == 300
POP_ACTOR_BOOST == 180
RUNTIME_WINDOW == 60

\* max(0, 1 - |runtime - (min + max) / 2| / 60) * 0.2, in units of 1/600
runtime_boost(movie, filters) ==
    LET twice_diff == Abs(2 * movie.runtime - (filters.runtime_min[1] + filters.runtime_max[1]))
    IN  Max(0, 2 * RUNTIME_WINDOW - twice_diff)

popularity_score(movie, filters) ==
    movie.popularity * POPULARITY_UNIT
    + (IF filters.genres # <<>>
       THEN POP_GENRE_BOOST * CountWantedIn(filters.genres, movie.genre) ELSE 0)
    + (IF filters.actors # <<>>
       THEN POP_ACTOR_BOOST * CountWantedIn(filters.actors, movie.cast) ELSE 0)
    + (IF TruthyStr(filters.vibe) THEN calculate_vibe_boost(movie, filters.vibe[1]) ELSE 0)
    + (IF TruthyInt(filters.runtime_min) /\ TruthyInt(filters.runtime_max)
       THEN runtime_boost(movie, filters) ELSE 0)

\* the scored_movies list after the loop over the movies
popularity_scored(movies, filters) ==
    [i \in 1..Len(movies) |-> <<movies[i], popularity_score(movies[i], filters)>>]

popularity_strategy(movies, filters, limit) ==
    Movies(SliceTo(SortDesc(popularity_scored(movies, filters)), limit))

(***************************************************************************)
(* RecommendationEngine._similarity_strategy                               *)
(*                                                                         *)
(* The TF-IDF weights and the cosine are library arithmetic.  The index    *)
(* built at construction gives each catalog row a similarity level; any    *)
(* level is possible for a query that has terms, and a query document      *)
(* without terms has the zero vector, whose cosine with every row is 0.    *)
(***************************************************************************)
SIM_GENRE_BOOST == 180
SIM_ACTOR_BOOST == 120

RECURSIVE JoinFrom(_, _)
JoinFrom(parts, i) ==
    IF i > Len(parts) THEN ""
    ELSE IF i = Len(parts) THEN parts[i]
    ELSE parts[i] \o " " \o JoinFrom(parts, i + 1)

\* ' '.join(parts)
Join(parts) == JoinFrom(parts, 1)

cosine_similarity(query_doc, movie_index) ==
    IF query_doc = "" THEN 0 ELSE tfidf_matrix[movie_index]

similarity_score(movie, filters, query_doc) ==
    LET all_movies == get_all_movies
        found == {i \in 1..Len(all_movies) : all_movies[i].id = movie.id}
    IN  IF found = {} THEN 0
        ELSE
            LET movie_index == CHOOSE i \in found : \A j \in found : i <= j
                similarity == cosine_similarity(query_doc, movie_index)
                boost ==
                    (IF filters.genres # <<>>
                     THEN SIM_GENRE_BOOST * CountWantedIn(filters.genres, movie.genre)
                     ELSE 0)
                    + (IF filters.actors # <<>>
                       THEN SIM_ACTOR_BOOST * CountWantedIn(filters.actors, movie.cast)
                       ELSE 0)
                    + (IF TruthyStr(filters.vibe)
                       THEN calculate_vibe_boost(movie, filters.vibe[1]) ELSE 0)
            IN  similarity + boost

\* the similarities list after the loop over the movies
similarity_scored(movies, filters) ==
    LET query_parts == filters.keywords \o filters.genres \o filters.actors
        query_doc == Join(query_parts)
    IN  [i \in 1..Len(movies) |->
            <<movies[i], similarity_score(movies[i], filters, query_doc)>>]

similarity_strategy(movies, filters, limit) ==
    IF movies = <<>> THEN SliceTo(movies, limit)
    ELSE Movies(SliceTo(SortDesc(similarity_scored(movies, filters)), limit))

(***************************************************************************)
(* RecommendationEngine.get_recommendations                                *)
(***************************************************************************)
\* both strategies falling back to the whole catalog
get_recommendations_fallback(filters, variant, limit) ==
    LET candidates == filter_movies(filters)
        movies_to_use == IF candidates # <<>> THEN candidates ELSE get_all_movies
    IN  IF variant = POPULARITY
        THEN popularity_strategy(movies_to_use, filters, limit)
        ELSE similarity_strategy(movies_to_use, filters, limit)

\* neither strategy falling back to the whole catalog
get_recommendations_no_fallback(filters, variant, limit) ==
    LET candidates == filter_movies(filters)
    IN  IF candidates = <<>> THEN <<>>
        ELSE IF variant = POPULARITY
        THEN popularity_strategy(candidates, filters, limit)
        ELSE similarity_strategy(candidates, filters, limit)

get_recommendations(filters, variant, limit) ==
    LET candidates == filter_movies(filters)
    IN  IF variant = POPULARITY
        THEN (IF candidates = <<>> THEN <<>>
              ELSE popularity_strategy(candidates, filters, limit))
        ELSE IF variant = SIMILARITY
        THEN (LET movies_to_use == IF candidates # <<>> THEN candidates
                                   ELSE get_all_movies
              IN  similarity_strategy(movies_to_use, filters, limit))
        ELSE (IF candidates # <<>> THEN SliceTo(candidates, limit) ELSE <<>>)

\* the (movie, score) list built by the strategy get_recommendations calls
get_scored_movies(filters, variant) ==
    LET candidates == filter_movies(filters)
    IN  IF variant = POPULARITY
        THEN (IF candidates = <<>> THEN <<>>
              ELSE popularity_scored(candidates, filters))
        ELSE IF variant = SIMILARITY
        THEN similarity_scored(IF candidates # <<>> THEN candidates
                               ELSE get_all_movies, filters)
        ELSE <<>>

(***************************************************************************)
(* schema.ParsedFilters                                                    *)
(***************************************************************************)
NoFilters == [genres |-> <<>>, actors |-> <<>>, runtime_min |-> None,
              runtime_max |-> None, vibe |-> None, keywords |-> <<>>,
              year_min |-> None, year_max |-> None]

(***************************************************************************)
(* The calls made on the engine                                            *)
(***************************************************************************)
GenreInputs == {<<>>, <<"drama", "CRIME">>, <<"Western">>}
ActorInputs == {<<>>, <<"al pacino", "Heath Ledger">>}
RuntimeMinInputs == {None, Some(0), Some(140)}
RuntimeMaxInputs == {None, Some(0), Some(160)}
YearMinInputs == {None, Some(1990)}
YearMaxInputs == {None, Some(2000)}
KeywordInputs == {<<>>, <<"Crime", "war">>}
VibeInputs == {None, Some("dark"), Some("sleepy")}

FilterInputs ==
    [genres : GenreInputs, actors : ActorInputs, runtime_min : RuntimeMinInputs,
     runtime_max : RuntimeMaxInputs, vibe : VibeInputs, keywords : KeywordInputs,
     year_min : YearMinInputs, year_max : YearMaxInputs]

MaxLimit == 3
LimitInputs == 1..MaxLimit

\* similarity levels of the four catalog rows under the index, in 1/600
TfidfInputs == {<<300, 0, 0, 300>>, <<60, 240, 240, 30>>}

\* the arguments of a call, and whether it has returned
RecCalls == [filters : FilterInputs, variant : {POPULARITY, SIMILARITY},
             limit : LimitInputs, returned : {FALSE}]

NoRecCall == [filters |-> NoFilters, variant |-> "none", limit |-> 0,
              returned |-> TRUE]

GetRecommendations ==
    /\ ~rec_call.returned
    /\ rec_call' = [rec_call EXCEPT !.returned = TRUE]
    /\ filtered_movies' = filter_movies(rec_call.filters)
    /\ recommendations' = get_recommendations(rec_call.filters, rec_call.variant,
                                              rec_call.limit)
    /\ scored_movies' = get_scored_movies(rec_call.filters, rec_call.variant)
    /\ UNCHANGED <<search_results, assignVars, engineVars, parseVars, mapperVars, voiceVars, apiVars, boostVars>>

(***************************************************************************)
(* Specifications                                                          *)
(***************************************************************************)
\* normalize_filters has not been called
NotNormalized == [NoFilters EXCEPT !.vibe = Some("(normalize_filters has not returned)")]

IdleMapper == mapper_filters = NoFilters /\ normalized = NotNormalized

\* process_voice_query has not been called
NotProcessed == [original_text |-> "", cleaned_text |-> "", query_content |-> "",
                 corrected_query |-> "", query_type |-> "none"]

IdleVoice == voice_text = "" /\ voice_result = NotProcessed

\* the components a specification does not exercise
\* _calculate_vibe_boost has not been called
NoBoostCall == [movie |-> <<>>, vibe |-> "", returned |-> TRUE, boost |-> 0]

IdleBoost == boost_call = NoBoostCall

\* neither _filter_movies nor search_movies has been called
IdleFilter == filtered_movies = <<>> /\ search_results = <<>>

InitIdle == IdleMapper /\ IdleVoice /\ IdleBoost /\ IdleFilter

\* no request has been answered
NoResponse == [status |-> 0]

IdleApi ==
    /\ request_count = 0
    /\ events_db = <<>>
    /\ events_csv = <<>>
    /\ last_query_info = None
    /\ log_calls = <<>>
    /\ response = NoResponse

InitEngine ==
    /\ IdleApi
    /\ scored_movies = <<>>
    /\ catalog = SampleCatalog
    /\ recommendations = <<>>
    /\ last_call = NoCall
    /\ prev_call = NoCall

\* assignment of sessions to strategies, over restarts of the service
InitAssign ==
    /\ InitEngine
    /\ InitIdle
    /\ str_hash \in StrHashes
    /\ tfidf_matrix = <<0, 0, 0, 0>>
    /\ rec_call = NoRecCall
    /\ query = ""
    /\ parsed = NoFilters

NextAssign ==
    \/ \E session_id \in SessionIds : AssignVariant(session_id)
    \/ Restart

SpecAssign == InitAssign /\ [][NextAssign]_vars

\* ranking calls on one engine
InitRec ==
    /\ InitEngine
    /\ InitIdle
    /\ str_hash = [s \in SessionIds |-> 0]
    /\ tfidf_matrix \in TfidfInputs
    /\ rec_call \in RecCalls
    /\ query = ""
    /\ parsed = NoFilters

NextRec == GetRecommendations

SpecRec == InitRec /\ [][NextRec]_vars

\* calls with a limit that is not positive
LimitCalls ==
    [filters : {f \in FilterInputs :
                    /\ f.actors = <<>> /\ f.keywords = <<>> /\ f.vibe = None
                    /\ f.runtime_min = None /\ f.year_min = None /\ f.year_max = None},
     variant : {POPULARITY, SIMILARITY},
     limit : (0 - MaxLimit)..0,
     returned : {FALSE}]

InitLimit ==
    /\ InitEngine
    /\ InitIdle
    /\ str_hash = [s \in SessionIds |-> 0]
    /\ tfidf_matrix \in TfidfInputs
    /\ rec_call \in LimitCalls
    /\ query = ""
    /\ parsed = NoFilters

SpecLimit == InitLimit /\ [][NextRec]_vars

(***************************************************************************)
(* QueryParser._extract_runtime                                            *)
(*                                                                         *)
(* A runtime pattern is held twice: as the text of the regular expression  *)
(* (the code tests it for 'hour' and 'hr') and as the steps that text      *)
(* compiles to.  A step is a literal, an optional literal, a run of        *)
(* whitespace, or an optional literal followed by a run of whitespace.     *)
(* After the steps comes the captured number (digits, then optionally a    *)
(* point and digits) and, when the pattern has a unit, whitespace and the  *)
(* unit.  Every quantifier of these patterns is followed by something its  *)
(* own characters cannot start, so the greedy match is the only match and  *)
(* no backtracking is modelled.                                            *)
(***************************************************************************)
Digits == "0123456789"
IsDigit(c) == \E d \in 1..10 : Char(Digits, d) = c
DigitVal(c) == (CHOOSE d \in 1..10 : Char(Digits, d) = c) - 1
IsSpace(c) == c = " "

\* the character at position i, "" past the end
At(s, i) == IF i >= 1 /\ i <= Len(s) THEN Char(s, i) ELSE ""

RECURSIVE DigitsEnd(_, _)
\* the position after a run of digits at i
DigitsEnd(s, i) == IF IsDigit(At(s, i)) THEN DigitsEnd(s, i + 1) ELSE i

RECURSIVE SpacesEnd(_, _)
\* the position after a run of whitespace at i
SpacesEnd(s, i) == IF IsSpace(At(s, i)) THEN SpacesEnd(s, i + 1) ELSE i

\* the position after the number at i, 0 when there is none
NumberEnd(s, i) ==
    LET e1 == DigitsEnd(s, i)
    IN  IF e1 = i THEN 0
        ELSE IF At(s, e1) = "." /\ IsDigit(At(s, e1 + 1)) THEN DigitsEnd(s, e1 + 2)
        ELSE e1

Lit(text) == [kind |-> "lit", text |-> text]
Opt(text) == [kind |-> "opt", text |-> text]
OptWs(text) == [kind |-> "optws", text |-> text]
Ws == [kind |-> "ws", text |-> ""]

RECURSIVE StepsEnd(_, _, _, _)
\* the position after steps[k..] matched at i, 0 when they do not match
StepsEnd(s, i, steps, k) ==
    IF k > Len(steps) THEN i
    ELSE LET st == steps[k]
         IN  IF st.kind = "lit"
             THEN (IF StartsAt(s, i, st.text)
                   THEN StepsEnd(s, i + Len(st.text), steps, k + 1) ELSE 0)
             ELSE IF st.kind = "opt"
             THEN (IF StartsAt(s, i, st.text)
                   THEN StepsEnd(s, i + Len(st.text), steps, k + 1)
                   ELSE StepsEnd(s, i, steps, k + 1))
             ELSE IF st.kind = "optws"
             THEN (IF StartsAt(s, i, st.text)
                   THEN StepsEnd(s, SpacesEnd(s, i + Len(st.text)), steps, k + 1)
                   ELSE StepsEnd(s, i, steps, k + 1))
             ELSE StepsEnd(s, SpacesEnd(s, i), steps, k + 1)

ShortThan == <<Lit("short"), Opt("er"), Ws, OptWs("than")>>
LongThan == <<Lit("long"), Opt("er"), Ws, OptWs("than")>>

runtime_patterns == <<
    [text |-> "(\\d+(?:\\.\\d+)?)\\s*minutes?", lead |-> <<>>, unit |-> "minute"],
    [text |-> "(\\d+(?:\\.\\d+)?)\\s*mins?", lead |-> <<>>, unit |-> "min"],
    [text |-> "(\\d+(?:\\.\\d+)?)\\s*hours?", lead |-> <<>>, unit |-> "hour"],
    [text |-> "(\\d+(?:\\.\\d+)?)\\s*hrs?", lead |-> <<>>, unit |-> "hr"],
    [text |-> "short(?:er)?\\s*(?:than\\s*)?(\\d+(?:\\.\\d+)?)\\s*minutes?",
     lead |-> ShortThan, unit |-> "minute"],
    [text |-> "long(?:er)?\\s*(?:than\\s*)?(\\d+(?:\\.\\d+)?)\\s*minutes?",
     lead |-> LongThan, unit |-> "minute"],
    [text |-> "under\\s*(\\d+(?:\\.\\d+)?)\\s*minutes?",
     lead |-> <<Lit("under"), Ws>>, unit |-> "minute"],
    [text |-> "over\\s*(\\d+(?:\\.\\d+)?)\\s*hours?",
     lead |-> <<Lit("over"), Ws>>, unit |-> "hour"],
    [text |-> "less\\s*than\\s*(\\d+(?:\\.\\d+)?)\\s*minutes?",
     lead |-> <<Lit("less"), Ws, Lit("than"), Ws>>, unit |-> "minute"],
    [text |-> "more\\s*than\\s*(\\d+(?:\\.\\d+)?)\\s*hours?",
     lead |-> <<Lit("more"), Ws, Lit("than"), Ws>>, unit |-> "hour"],
    [text |-> "short(?:er)?\\s*(?:than\\s*)?(\\d+(?:\\.\\d+)?)",
     lead |-> ShortThan, unit |-> ""],
    [text |-> "under\\s*(\\d+(?:\\.\\d+)?)", lead |-> <<Lit("under"), Ws>>, unit |-> ""] >>

\* the group captured when the pattern matches at position i, None otherwise
RuntimeMatchAt(pattern, s, i) ==
    LET num == StepsEnd(s, i, pattern.lead, 1)
        stop == IF num = 0 THEN 0 ELSE NumberEnd(s, num)
    IN  IF stop = 0 THEN None
        ELSE IF pattern.unit = "" \/ StartsAt(s, SpacesEnd(s, stop), pattern.unit)
        THEN Some(SubSeq(s, num, stop - 1))
        ELSE None

\* re.findall(pattern, query)[0]: the group of the leftmost match, or None
RuntimeFirstMatch(pattern, s) ==
    LET hits == {i \in 1..Len(s) : RuntimeMatchAt(pattern, s, i) # None}
    IN  IF hits = {} THEN None
        ELSE RuntimeMatchAt(pattern, s, CHOOSE i \in hits : \A j \in hits : i <= j)

RECURSIVE IntOf(_)
\* int(digits)
IntOf(digits) ==
    IF Len(digits) = 0 THEN 0
    ELSE 10 * IntOf(SubSeq(digits, 1, Len(digits) - 1))
         + DigitVal(Char(digits, Len(digits)))

RECURSIVE Pow10(_)
Pow10(n) == IF n = 0 THEN 1 ELSE 10 * Pow10(n - 1)

\* int(float(match) * factor), the product taken exactly
ScaledInt(match, factor) ==
    LET dot == {i \in 1..Len(match) : Char(match, i) = "."}
    IN  IF dot = {} THEN IntOf(match) * factor
        ELSE LET d == CHOOSE i \in dot : TRUE
                 places == Len(match) - d
                 whole == IntOf(SubSeq(match, 1, d - 1))
                 frac == IntOf(SubSeq(match, d + 1, Len(match)))
             IN  ((whole * Pow10(places) + frac) * factor) \div Pow10(places)

MINUTES_PER_HOUR == 60

\* the minutes a match of the pattern stands for
MatchMinutes(pattern, match) ==
    IF Contains("hour", pattern.text) \/ Contains("hr", pattern.text)
    THEN ScaledInt(match, MINUTES_PER_HOUR)
    ELSE ScaledInt(match, 1)

\* the two tests in the other order: 'long', 'over', 'more than' first
bound_for_long_first(query_lower) ==
    IF Contains("long", query_lower) \/ Contains("over", query_lower)
       \/ Contains("more than", query_lower)
    THEN "min"
    ELSE "max"

\* which bound a match sets: decided by the words of the whole query
bound_for(query_lower) ==
    IF Contains("short", query_lower) \/ Contains("under", query_lower)
       \/ Contains("less than", query_lower)
    THEN "max"
    ELSE IF Contains("long", query_lower) \/ Contains("over", query_lower)
            \/ Contains("more than", query_lower)
    THEN "min"
    ELSE "max"

\* the bound chosen by the words of the pattern that matched
runtime_step_by_pattern(bounds, pattern, query_lower) ==
    LET match == RuntimeFirstMatch(pattern, query_lower)
    IN  IF match = None THEN bounds
        ELSE IF Contains("long", pattern.text) \/ Contains("over", pattern.text)
                \/ Contains("more", pattern.text)
        THEN [bounds EXCEPT !.min = Some(MatchMinutes(pattern, match[1]))]
        ELSE [bounds EXCEPT !.max = Some(MatchMinutes(pattern, match[1]))]

\* one turn of the loop over the patterns: the first match of the pattern, if
\* there is one, is written to the bound the query's words choose
runtime_step(bounds, pattern, query_lower) ==
    LET match == RuntimeFirstMatch(pattern, query_lower)
    IN  IF match = None THEN bounds
        ELSE LET minutes == MatchMinutes(pattern, match[1])
                 which == bound_for(query_lower)
             IN  IF which = "max" THEN [bounds EXCEPT !.max = Some(minutes)]
                 ELSE [bounds EXCEPT !.min = Some(minutes)]

RECURSIVE ExtractRuntimeFrom(_, _, _)
ExtractRuntimeFrom(query_lower, k, bounds) ==
    IF k > Len(runtime_patterns) THEN bounds
    ELSE ExtractRuntimeFrom(query_lower, k + 1,
                            runtime_step(bounds, runtime_patterns[k], query_lower))

\* the break leaves the loop over the matches of one pattern only: every
\* pattern of the list is tried, and a later one overwrites an earlier one
extract_runtime(query_lower) ==
    ExtractRuntimeFrom(query_lower, 1, [min |-> None, max |-> None])

(***************************************************************************)
(* QueryParser: genres, actors, vibe, keywords and years of a query        *)
(***************************************************************************)
genre_mapping == <<
    [name |-> "comedy", keywords |-> <<"comedy", "funny", "humor", "humorous", "laugh">>],
    [name |-> "drama", keywords |-> <<"drama", "serious", "emotional", "touching">>],
    [name |-> "thriller", keywords |-> <<"thriller", "suspense", "mystery", "suspenseful">>],
    [name |-> "action", keywords |-> <<"action", "adventure", "exciting", "fast-paced">>],
    [name |-> "romance", keywords |-> <<"romance", "romantic", "love", "romantic comedy", "rom-com">>],
    [name |-> "horror", keywords |-> <<"horror", "scary", "frightening", "terrifying">>],
    [name |-> "sci-fi", keywords |-> <<"sci-fi", "science fiction", "futuristic", "space", "alien">>],
    [name |-> "fantasy", keywords |-> <<"fantasy", "magical", "wizard", "magic">>],
    [name |-> "crime", keywords |-> <<"crime", "criminal", "gangster", "mob", "detective">>],
    [name |-> "biography", keywords |-> <<"biography", "biographical", "true story", "real story">>],
    [name |-> "history", keywords |-> <<"historical", "history", "period piece">>],
    [name |-> "family", keywords |-> <<"family", "kids", "children", "family-friendly">>] >>

actor_mapping == <<
    [name |-> "tom hanks", keywords |-> <<"tom hanks", "thomas hanks">>],
    [name |-> "leonardo dicaprio", keywords |-> <<"leonardo dicaprio", "leo dicaprio">>],
    [name |-> "morgan freeman", keywords |-> <<"morgan freeman">>],
    [name |-> "robert de niro", keywords |-> <<"robert de niro", "bobby de niro">>],
    [name |-> "al pacino", keywords |-> <<"al pacino", "alfredo pacino">>],
    [name |-> "brad pitt", keywords |-> <<"brad pitt", "bradley pitt">>],
    [name |-> "matt damon", keywords |-> <<"matt damon", "matthew damon">>],
    [name |-> "julia roberts", keywords |-> <<"julia roberts">>],
    [name |-> "meryl streep", keywords |-> <<"meryl streep">>],
    [name |-> "denzel washington", keywords |-> <<"denzel washington">>],
    [name |-> "keanu reeves", keywords |-> <<"keanu reeves">>],
    [name |-> "christian bale", keywords |-> <<"christian bale">>],
    [name |-> "heath ledger", keywords |-> <<"heath ledger">>],
    [name |-> "robin williams", keywords |-> <<"robin williams">>],
    [name |-> "anthony hopkins", keywords |-> <<"anthony hopkins">>],
    [name |-> "jodie foster", keywords |-> <<"jodie foster">>],
    [name |-> "harrison ford", keywords |-> <<"harrison ford">>],
    [name |-> "mark hamill", keywords |-> <<"mark hamill">>],
    [name |-> "carrie fisher", keywords |-> <<"carrie fisher">>],
    [name |-> "samuel l. jackson", keywords |-> <<"samuel l. jackson", "sam jackson">>],
    [name |-> "john travolta", keywords |-> <<"john travolta">>],
    [name |-> "uma thurman", keywords |-> <<"uma thurman">>],
    [name |-> "tim robbins", keywords |-> <<"tim robbins">>],
    [name |-> "marlon brando", keywords |-> <<"marlon brando">>],
    [name |-> "james caan", keywords |-> <<"james caan">>],
    [name |-> "edward norton", keywords |-> <<"edward norton">>],
    [name |-> "helena bonham carter", keywords |-> <<"helena bonham carter">>],
    [name |-> "laurence fishburne", keywords |-> <<"laurence fishburne">>],
    [name |-> "carrie-anne moss", keywords |-> <<"carrie-anne moss">>],
    [name |-> "ray liotta", keywords |-> <<"ray liotta">>],
    [name |-> "joe pesci", keywords |-> <<"joe pesci">>],
    [name |-> "scott glenn", keywords |-> <<"scott glenn">>],
    [name |-> "viggo mortensen", keywords |-> <<"viggo mortensen">>],
    [name |-> "ian mckellen", keywords |-> <<"ian mckellen">>],
    [name |-> "elijah wood", keywords |-> <<"elijah wood">>],
    [name |-> "orlando bloom", keywords |-> <<"orlando bloom">>],
    [name |-> "marion cotillard", keywords |-> <<"marion cotillard">>],
    [name |-> "tom hardy", keywords |-> <<"tom hardy">>],
    [name |-> "jack nicholson", keywords |-> <<"jack nicholson">>],
    [name |-> "louise fletcher", keywords |-> <<"louise fletcher">>],
    [name |-> "ben affleck", keywords |-> <<"ben affleck">>],
    [name |-> "kevin spacey", keywords |-> <<"kevin spacey">>],
    [name |-> "gabriel byrne", keywords |-> <<"gabriel byrne">>],
    [name |-> "chazz palminteri", keywords |-> <<"chazz palminteri">>] >>

vibe_keywords == <<
    [name |-> "funny", keywords |-> <<"funny", "hilarious", "comedy", "laugh", "humor">>],
    [name |-> "serious", keywords |-> <<"serious", "dramatic", "intense", "heavy", "emotional">>],
    [name |-> "romantic", keywords |-> <<"romantic", "love", "romance", "sweet", "cute">>],
    [name |-> "exciting", keywords |-> <<"exciting", "thrilling", "action-packed", "adrenaline">>],
    [name |-> "scary", keywords |-> <<"scary", "frightening", "terrifying", "horror">>],
    [name |-> "thought-provoking", keywords |-> <<"thought-provoking", "deep", "philosophical", "meaningful">>],
    [name |-> "light", keywords |-> <<"light", "easy", "fun", "entertaining", "feel-good">>],
    [name |-> "dark", keywords |-> <<"dark", "gritty", "disturbing", "intense">>] >>

stop_words == {
    "the", "a", "an", "and", "or", "but", "in", "on", "at", "to", "for",
    "of", "with", "by", "is", "are", "was", "were", "be", "been", "being",
    "have", "has", "had", "do", "does", "did", "will", "would", "could",
    "should", "may", "might", "must", "can", "find", "show", "me",
    "movies", "movie", "film", "films" }

UpperChar(c) ==
    IF \E k \in 1..26 : Char(LowerCase, k) = c
    THEN Char(UpperCase, CHOOSE k \in 1..26 : Char(LowerCase, k) = c)
    ELSE c

IsAlpha(c) == \E k \in 1..26 : Char(LowerCase, k) = c \/ Char(UpperCase, k) = c

RECURSIVE TitleFrom(_, _)
TitleFrom(s, i) ==
    IF i > Len(s) THEN ""
    ELSE (IF IsAlpha(At(s, i - 1)) THEN LowerChar(Char(s, i)) ELSE UpperChar(Char(s, i)))
         \o TitleFrom(s, i + 1)

\* s.title(): a letter after a letter in lower case, any other letter in upper
Title(s) == TitleFrom(s, 1)

\* any(keyword in query for keyword in keywords)
AnyIn(keywords, query_lower) ==
    \E k \in 1..Len(keywords) : Contains(keywords[k], query_lower)

\* the names of the entries of a mapping one of whose keywords the query holds,
\* in the order of the mapping
NamesIn(mapping, query_lower) ==
    LET hit == SelectSeq(mapping, LAMBDA e : AnyIn(e.keywords, query_lower))
    IN  [k \in 1..Len(hit) |-> hit[k].name]

\* a trigger counted only when it stands as a word of its own
extract_genres_whole_words(query_lower) ==
    LET hit == SelectSeq(genre_mapping, LAMBDA e :
                   \E k \in 1..Len(e.keywords) :
                       Contains(" " \o e.keywords[k] \o " ", " " \o query_lower \o " "))
    IN  [k \in 1..Len(hit) |-> Title(hit[k].name)]

extract_genres(query_lower) ==
    LET names == NamesIn(genre_mapping, query_lower)
    IN  [k \in 1..Len(names) |-> Title(names[k])]

extract_actors(query_lower) ==
    LET names == NamesIn(actor_mapping, query_lower)
    IN  [k \in 1..Len(names) |-> Title(names[k])]

\* the last vibe of the mapping with a keyword in the query
extract_vibe_last(query_lower) ==
    LET names == NamesIn(vibe_keywords, query_lower)
    IN  IF Len(names) = 0 THEN None ELSE Some(names[Len(names)])

\* the first vibe of the mapping with a keyword in the query
extract_vibe(query_lower) ==
    LET names == NamesIn(vibe_keywords, query_lower)
    IN  IF Len(names) = 0 THEN None ELSE Some(names[1])

IsWord(c) == IsAlpha(c) \/ IsDigit(c) \/ c = "_"

\* the least position from i on whose character is (is not) a word character,
\* Len(s) + 1 when there is none
WordStart(s, i) ==
    LET at == {j \in i..Len(s) : IsWord(Char(s, j))}
    IN  IF at = {} THEN Len(s) + 1 ELSE CHOOSE j \in at : \A k \in at : j <= k

WordEnd(s, i) ==
    LET at == {j \in i..Len(s) : ~IsWord(Char(s, j))}
    IN  IF at = {} THEN Len(s) + 1 ELSE CHOOSE j \in at : \A k \in at : j <= k

RECURSIVE WordsFrom(_, _)
WordsFrom(s, i) ==
    LET b == WordStart(s, i)
        e == WordEnd(s, b)
    IN  IF b > Len(s) THEN <<>>
        ELSE <<SubSeq(s, b, e - 1)>> \o WordsFrom(s, e)

\* the query cut at its word boundaries without dropping the short pieces:
\* the empty query is one empty piece
extract_keywords_split(query_lower) ==
    LET words == WordsFrom(Lower(query_lower), 1)
    IN  SelectSeq(IF words = <<>> THEN <<"">> ELSE words,
                  LAMBDA word : word \notin stop_words)

\* the runs of word characters of the query that are no stop word and are
\* longer than two characters
extract_keywords(query_lower) ==
    SelectSeq(WordsFrom(Lower(query_lower), 1),
              LAMBDA word : word \notin stop_words /\ Len(word) > 2)

YEAR_DIGITS == 4
DECADE_SPAN == 9

\* the text of each year pattern, the steps before its four digits and the
\* steps after them
year_patterns == <<
    [text |-> "(\\d{4})", lead |-> <<>>, tail |-> <<>>],
    [text |-> "from\\s*(\\d{4})", lead |-> <<Lit("from"), Ws>>, tail |-> <<>>],
    [text |-> "after\\s*(\\d{4})", lead |-> <<Lit("after"), Ws>>, tail |-> <<>>],
    [text |-> "since\\s*(\\d{4})", lead |-> <<Lit("since"), Ws>>, tail |-> <<>>],
    [text |-> "before\\s*(\\d{4})", lead |-> <<Lit("before"), Ws>>, tail |-> <<>>],
    [text |-> "until\\s*(\\d{4})", lead |-> <<Lit("until"), Ws>>, tail |-> <<>>],
    [text |-> "(\\d{4})s", lead |-> <<>>, tail |-> <<Lit("s")>>],
    [text |-> "(\\d{4})s?", lead |-> <<>>, tail |-> <<Opt("s")>>] >>

\* the captured digits and the position after the match when the pattern
\* matches at position i, None otherwise
YearMatchAt(pattern, s, i) ==
    LET num == StepsEnd(s, i, pattern.lead, 1)
        digits_end == num + YEAR_DIGITS
        stop == StepsEnd(s, digits_end, pattern.tail, 1)
    IN  IF num = 0 \/ \E j \in num..(digits_end - 1) : ~IsDigit(At(s, j)) THEN None
        ELSE IF stop = 0 THEN None
        ELSE Some([group |-> SubSeq(s, num, digits_end - 1), stop |-> stop])

\* a step that keeps a year_min an earlier match wrote
year_step_keep_min(years, match, query_lower) ==
    LET year == IntOf(match)
        kept == IF years.min = None THEN Some(year) ELSE years.min
    IN  IF Contains("s", match) \/ Contains("1990s", query_lower)
        THEN [min |-> kept, max |-> Some(year + DECADE_SPAN)]
        ELSE IF Contains("from", query_lower) \/ Contains("after", query_lower)
                \/ Contains("since", query_lower)
        THEN [years EXCEPT !.min = kept]
        ELSE IF Contains("before", query_lower) \/ Contains("until", query_lower)
        THEN [years EXCEPT !.max = Some(year)]
        ELSE [min |-> kept, max |-> Some(year)]

\* what one match does to the bounds
year_step(years, match, query_lower) ==
    LET year == IntOf(match)
    IN  IF Contains("s", match) \/ Contains("1990s", query_lower)
        THEN [min |-> Some(year), max |-> Some(year + DECADE_SPAN)]
        ELSE IF Contains("from", query_lower) \/ Contains("after", query_lower)
                \/ Contains("since", query_lower)
        THEN [years EXCEPT !.min = Some(year)]
        ELSE IF Contains("before", query_lower) \/ Contains("until", query_lower)
        THEN [years EXCEPT !.max = Some(year)]
        ELSE [min |-> Some(year), max |-> Some(year)]

\* the loop left after the first match of the first matching pattern
ExtractYearFirstMatch(query_lower, k, i, years) ==
    LET found == {<<n, j>> \in (k..Len(year_patterns)) \X (1..Len(query_lower)) :
                      YearMatchAt(year_patterns[n], query_lower, j) # None}
    IN  IF found = {} THEN years
        ELSE LET first == CHOOSE a \in found : \A b \in found :
                              a[1] < b[1] \/ (a[1] = b[1] /\ a[2] <= b[2])
             IN  year_step(years,
                           YearMatchAt(year_patterns[first[1]], query_lower,
                                       first[2])[1].group,
                           query_lower)

RECURSIVE ExtractYearFrom(_, _, _, _)
\* the loop over the patterns from k on and, within pattern k, over the
\* matches re.findall finds from position i on, left to right
ExtractYearFrom(query_lower, k, i, years) ==
    IF k > Len(year_patterns) THEN years
    ELSE LET hits == {j \in i..Len(query_lower) :
                          YearMatchAt(year_patterns[k], query_lower, j) # None}
         IN  IF hits = {} THEN ExtractYearFrom(query_lower, k + 1, 1, years)
             ELSE LET j == CHOOSE a \in hits : \A b \in hits : a <= b
                      m == YearMatchAt(year_patterns[k], query_lower, j)[1]
                  IN  ExtractYearFrom(query_lower, k, m.stop,
                                      year_step(years, m.group, query_lower))

extract_year(query_lower) ==
    ExtractYearFrom(query_lower, 1, 1, [min |-> None, max |-> None])

(***************************************************************************)
(* QueryParser.parse_query                                                 *)
(***************************************************************************)
RECURSIVE Strip(_)
\* s.strip()
Strip(s) ==
    IF Len(s) = 0 THEN s
    ELSE IF IsSpace(Char(s, 1)) THEN Strip(SubSeq(s, 2, Len(s)))
    ELSE IF IsSpace(Char(s, Len(s))) THEN Strip(SubSeq(s, 1, Len(s) - 1))
    ELSE s

parse_query(text) ==
    LET query_lower == Strip(Lower(text))
        runtime == extract_runtime(query_lower)
        years == extract_year(query_lower)
    IN  [genres |-> extract_genres(query_lower),
         actors |-> extract_actors(query_lower),
         runtime_min |-> runtime.min,
         runtime_max |-> runtime.max,
         vibe |-> extract_vibe(query_lower),
         keywords |-> extract_keywords(query_lower),
         year_min |-> years.min,
         year_max |-> years.max]

\* the phrases queries are made of
RuntimePhrases == {"under 2 Hours", "Over 2 hours", "shorter than 120 minutes",
                   "longer than 90 minutes", "less than 1.5 hours",
                   "more than 3 hours", "under 100 mins", "under 45 minutes",
                   "less than 45 minutes", "shorter than 2 hours", " 2 hrs",
                   "90 minutes", "1.5 hours"}

MaxPhrases == 2

RECURSIVE QueriesOf(_, _)
\* the queries of at most n phrases, a space between two phrases
QueriesOf(phrases, n) ==
    IF n = 0 THEN {""}
    ELSE LET shorter == QueriesOf(phrases, n - 1)
         IN  shorter \cup phrases
             \cup {q \o " " \o ph : q \in shorter \ {""}, ph \in phrases}

NotParsed == [NoFilters EXCEPT !.vibe = Some("(parse_query has not returned)")]

ParseQuery ==
    /\ parsed = NotParsed
    /\ parsed' = parse_query(query)
    /\ UNCHANGED <<query, assignVars, engineVars, recVars, mapperVars, voiceVars, apiVars, boostVars>>

\* parse_query calls, one per query text
InitParse ==
    /\ InitEngine
    /\ InitIdle
    /\ str_hash = [s \in SessionIds |-> 0]
    /\ tfidf_matrix = <<0, 0, 0, 0>>
    /\ rec_call = NoRecCall
    /\ query \in QueriesOf(RuntimePhrases, MaxPhrases)
    /\ parsed = NotParsed

NextParse == ParseQuery

SpecParse == InitParse /\ [][NextParse]_vars

\* the year phrases queries are made of
YearPhrases == {"from 1990", "before 2000", "after 1980", "in the 1990s",
                "since 1995", "until 2010", "1980s", "2005", "the 2000s"}

\* parse_query calls on queries about years
InitYear ==
    /\ InitEngine
    /\ InitIdle
    /\ str_hash = [s \in SessionIds |-> 0]
    /\ tfidf_matrix = <<0, 0, 0, 0>>
    /\ rec_call = NoRecCall
    /\ query \in QueriesOf(YearPhrases, MaxPhrases)
    /\ parsed = NotParsed

SpecYear == InitYear /\ [][NextParse]_vars

\* the phrases of queries about genres, actors and moods; the last three hold
\* no trigger of any mapping
WordPhrases == {"find comedy movies", "find funny romantic movies", "lovely",
                "with Tom Hanks", "sam jackson", "Sci-Fi", "dark intense",
                "mobile", "xyzzy plugh", "?!", " "}

\* parse_query calls on queries about genres, actors and moods
InitWords ==
    /\ InitEngine
    /\ InitIdle
    /\ str_hash = [s \in SessionIds |-> 0]
    /\ tfidf_matrix = <<0, 0, 0, 0>>
    /\ rec_call = NoRecCall
    /\ query \in QueriesOf(WordPhrases, MaxPhrases)
    /\ parsed = NotParsed

SpecWords == InitWords /\ [][NextParse]_vars

(***************************************************************************)
(* MetadataMapper.normalize_filters                                        *)
(***************************************************************************)
normalized_genres == <<
    [name |-> "Comedy", keywords |-> <<"comedy", "funny", "humor", "humorous">>],
    [name |-> "Drama", keywords |-> <<"drama", "serious", "emotional", "touching">>],
    [name |-> "Thriller", keywords |-> <<"thriller", "suspense", "mystery">>],
    [name |-> "Action", keywords |-> <<"action", "adventure", "exciting">>],
    [name |-> "Romance", keywords |-> <<"romance", "romantic", "love">>],
    [name |-> "Horror", keywords |-> <<"horror", "scary", "frightening">>],
    [name |-> "Sci-Fi", keywords |-> <<"sci-fi", "science fiction", "futuristic">>],
    [name |-> "Fantasy", keywords |-> <<"fantasy", "magical", "wizard">>],
    [name |-> "Crime", keywords |-> <<"crime", "criminal", "gangster">>],
    [name |-> "Biography", keywords |-> <<"biography", "biographical">>],
    [name |-> "History", keywords |-> <<"historical", "history">>],
    [name |-> "Family", keywords |-> <<"family", "kids", "children">>] >>

\* the first standard genre the name, as written, is a variation of
normalize_genre_exact(genre) ==
    LET hits == {k \in 1..Len(normalized_genres) :
                    \/ InList(genre, normalized_genres[k].keywords)
                    \/ genre = normalized_genres[k].name}
    IN  IF hits = {} THEN None
        ELSE Some(normalized_genres[CHOOSE k \in hits : \A j \in hits : k <= j].name)

\* the inner loop of _normalize_genres: the first standard genre the
\* lowercased name is a variation of or equals in lower case, None when the
\* loop ends without a break
normalize_genre(genre) ==
    LET genre_lower == Lower(genre)
        hits == {k \in 1..Len(normalized_genres) :
                    \/ InList(genre_lower, normalized_genres[k].keywords)
                    \/ genre_lower = Lower(normalized_genres[k].name)}
    IN  IF hits = {} THEN None
        ELSE Some(normalized_genres[CHOOSE k \in hits : \A j \in hits : k <= j].name)

\* set(normalized)
normalize_genres(genres) ==
    {normalize_genre(genres[i])[1] :
        i \in {j \in 1..Len(genres) : normalize_genre(genres[j]) # None}}

\* list(a_set): the elements once each, in an order the code does not choose
Orderings(elements) ==
    {order \in [1..Cardinality(elements) -> elements] :
        \A i, j \in 1..Cardinality(elements) : order[i] = order[j] => i = j}

\* the dict normalize_filters builds, the genres in the given order
normalize_filters(filters, genres) ==
    [genres |-> genres,
     actors |-> LowerAll(filters.actors),
     runtime_min |-> filters.runtime_min,
     runtime_max |-> filters.runtime_max,
     vibe |-> filters.vibe,
     keywords |-> LowerAll(filters.keywords),
     year_min |-> filters.year_min,
     year_max |-> filters.year_max]

\* the filters normalize_filters is called with
MapperInputs ==
    [genres : {<<>>, <<"comedy", "drama">>, <<"FUNNY", "Comedy", "humor">>,
               <<"Sci-Fi", "Science Fiction", "History">>, <<"Western", "SUSPENSE">>},
     actors : {<<>>, <<"Tom Hanks", "Leonardo DiCaprio">>},
     runtime_min : {None, Some(90)},
     runtime_max : {None, Some(120)},
     vibe : {None, Some("funny")},
     keywords : {<<>>, <<"War", "love">>},
     year_min : {None, Some(1990)},
     year_max : {None, Some(1999)}]

NormalizeFilters ==
    /\ normalized = NotNormalized
    /\ \E genres \in Orderings(normalize_genres(mapper_filters.genres)) :
           normalized' = normalize_filters(mapper_filters, genres)
    /\ UNCHANGED <<mapper_filters, assignVars, engineVars, recVars, parseVars, voiceVars, apiVars, boostVars>>

\* normalize_filters calls, one per ParsedFilters
InitNormalize ==
    /\ InitEngine
    /\ str_hash = [s \in SessionIds |-> 0]
    /\ tfidf_matrix = <<0, 0, 0, 0>>
    /\ rec_call = NoRecCall
    /\ query = ""
    /\ parsed = NoFilters
    /\ mapper_filters \in MapperInputs
    /\ normalized = NotNormalized
    /\ IdleVoice
    /\ IdleBoost
    /\ IdleFilter

NextNormalize == NormalizeFilters

SpecNormalize == InitNormalize /\ [][NextNormalize]_vars

(***************************************************************************)
(* VoiceProcessor.process_voice_query                                      *)
(*                                                                         *)
(* The text is put in lower case before any pattern is applied, so the     *)
(* IGNORECASE flag of the later searches changes nothing.  A voice pattern *)
(* is held as its text and as the words it spells, one or more spaces      *)
(* after each and at least one character after the last.                   *)
(***************************************************************************)
voice_corrections == <<
    [name |-> "movie", keywords |-> <<"movie", "film", "picture", "flick">>],
    [name |-> "movies", keywords |-> <<"movies", "films", "pictures", "flicks">>],
    [name |-> "comedy", keywords |-> <<"comedy", "funny", "humor", "humorous">>],
    [name |-> "drama", keywords |-> <<"drama", "serious", "emotional">>],
    [name |-> "action", keywords |-> <<"action", "adventure", "thriller">>],
    [name |-> "romance", keywords |-> <<"romance", "romantic", "love">>],
    [name |-> "horror", keywords |-> <<"horror", "scary", "frightening">>],
    [name |-> "sci-fi", keywords |-> <<"sci-fi", "science fiction", "sci fi">>],
    [name |-> "fantasy", keywords |-> <<"fantasy", "magical", "wizard">>],
    [name |-> "crime", keywords |-> <<"crime", "criminal", "gangster">>],
    [name |-> "thriller", keywords |-> <<"thriller", "suspense", "mystery">>],
    [name |-> "biography", keywords |-> <<"biography", "biographical">>],
    [name |-> "history", keywords |-> <<"historical", "history">>],
    [name |-> "family", keywords |-> <<"family", "kids", "children">>],
    [name |-> "minutes", keywords |-> <<"minutes", "mins", "min">>],
    [name |-> "hours", keywords |-> <<"hours", "hrs", "hr">>],
    [name |-> "short", keywords |-> <<"short", "shorter", "brief">>],
    [name |-> "long", keywords |-> <<"long", "longer", "extended">>],
    [name |-> "under", keywords |-> <<"under", "below", "less than">>],
    [name |-> "over", keywords |-> <<"over", "above", "more than">>],
    [name |-> "tom hanks", keywords |-> <<"tom hanks", "tom hank", "thomas hanks">>],
    [name |-> "leonardo dicaprio", keywords |-> <<"leonardo dicaprio", "leo dicaprio", "leonardo de caprio">>],
    [name |-> "morgan freeman", keywords |-> <<"morgan freeman", "morgan freeman">>],
    [name |-> "robert de niro", keywords |-> <<"robert de niro", "bobby de niro", "robert deniro">>],
    [name |-> "brad pitt", keywords |-> <<"brad pitt", "bradley pitt", "brad pit">>],
    [name |-> "matt damon", keywords |-> <<"matt damon", "matthew damon", "matt damon">>],
    [name |-> "julia roberts", keywords |-> <<"julia roberts", "julie roberts">>],
    [name |-> "meryl streep", keywords |-> <<"meryl streep", "merrill streep">>],
    [name |-> "denzel washington", keywords |-> <<"denzel washington", "denzel washington">>],
    [name |-> "keanu reeves", keywords |-> <<"keanu reeves", "keanu reeves">>],
    [name |-> "christian bale", keywords |-> <<"christian bale", "christian bale">>],
    [name |-> "heath ledger", keywords |-> <<"heath ledger", "heath ledger">>],
    [name |-> "robin williams", keywords |-> <<"robin williams", "robin williams">>],
    [name |-> "anthony hopkins", keywords |-> <<"anthony hopkins", "anthony hopkins">>],
    [name |-> "jodie foster", keywords |-> <<"jodie foster", "jody foster">>],
    [name |-> "harrison ford", keywords |-> <<"harrison ford", "harrison ford">>],
    [name |-> "mark hamill", keywords |-> <<"mark hamill", "mark hammill">>],
    [name |-> "carrie fisher", keywords |-> <<"carrie fisher", "carrie fisher">>],
    [name |-> "samuel l. jackson", keywords |-> <<"samuel l. jackson", "sam jackson", "samuel jackson">>],
    [name |-> "john travolta", keywords |-> <<"john travolta", "john travolta">>],
    [name |-> "uma thurman", keywords |-> <<"uma thurman", "uma thurman">>],
    [name |-> "tim robbins", keywords |-> <<"tim robbins", "tim robbins">>],
    [name |-> "marlon brando", keywords |-> <<"marlon brando", "marlon brando">>],
    [name |-> "james caan", keywords |-> <<"james caan", "james caan">>],
    [name |-> "edward norton", keywords |-> <<"edward norton", "ed norton">>],
    [name |-> "helena bonham carter", keywords |-> <<"helena bonham carter", "helena bonham carter">>],
    [name |-> "laurence fishburne", keywords |-> <<"laurence fishburne", "laurence fishburne">>],
    [name |-> "carrie-anne moss", keywords |-> <<"carrie-anne moss", "carrie anne moss">>],
    [name |-> "ray liotta", keywords |-> <<"ray liotta", "ray liotta">>],
    [name |-> "joe pesci", keywords |-> <<"joe pesci", "joe pesci">>],
    [name |-> "scott glenn", keywords |-> <<"scott glenn", "scott glenn">>],
    [name |-> "viggo mortensen", keywords |-> <<"viggo mortensen", "viggo mortensen">>],
    [name |-> "ian mckellen", keywords |-> <<"ian mckellen", "ian mckellen">>],
    [name |-> "elijah wood", keywords |-> <<"elijah wood", "elijah wood">>],
    [name |-> "orlando bloom", keywords |-> <<"orlando bloom", "orlando bloom">>],
    [name |-> "marion cotillard", keywords |-> <<"marion cotillard", "marion cotillard">>],
    [name |-> "tom hardy", keywords |-> <<"tom hardy", "tom hardy">>],
    [name |-> "jack nicholson", keywords |-> <<"jack nicholson", "jack nicholson">>],
    [name |-> "louise fletcher", keywords |-> <<"louise fletcher", "louise fletcher">>],
    [name |-> "ben affleck", keywords |-> <<"ben affleck", "ben affleck">>],
    [name |-> "kevin spacey", keywords |-> <<"kevin spacey", "kevin spacey">>],
    [name |-> "gabriel byrne", keywords |-> <<"gabriel byrne", "gabriel byrne">>],
    [name |-> "chazz palminteri", keywords |-> <<"chazz palminteri", "chazz palminteri">>] >>

voice_patterns == <<
    [text |-> "find\\s+(.+)", words |-> <<"find">>],
    [text |-> "show\\s+me\\s+(.+)", words |-> <<"show", "me">>],
    [text |-> "i\\s+want\\s+(.+)", words |-> <<"i", "want">>],
    [text |-> "look\\s+for\\s+(.+)", words |-> <<"look", "for">>],
    [text |-> "search\\s+for\\s+(.+)", words |-> <<"search", "for">>],
    [text |-> "give\\s+me\\s+(.+)", words |-> <<"give", "me">>],
    [text |-> "recommend\\s+(.+)", words |-> <<"recommend">>],
    [text |-> "suggest\\s+(.+)", words |-> <<"suggest">>],
    [text |-> "what\\s+(.+)", words |-> <<"what">>],
    [text |-> "can\\s+you\\s+find\\s+(.+)", words |-> <<"can", "you", "find">>],
    [text |-> "help\\s+me\\s+find\\s+(.+)", words |-> <<"help", "me", "find">>],
    [text |-> "i\\s+am\\s+looking\\s+for\\s+(.+)", words |-> <<"i", "am", "looking", "for">>],
    [text |-> "i\\s+need\\s+(.+)", words |-> <<"i", "need">>],
    [text |-> "do\\s+you\\s+have\\s+(.+)", words |-> <<"do", "you", "have">>],
    [text |-> "are\\s+there\\s+any\\s+(.+)", words |-> <<"are", "there", "any">>] >>

filler_words == <<"um", "uh", "er", "ah", "like", "you know", "i mean">>

\* \b between the characters i - 1 and i
WordBoundary(s, i) == IsWord(At(s, i - 1)) # IsWord(At(s, i))

\* the alternatives of \b(w1|w2|...)\b that match at position i
WholeWordAt(s, i, words) ==
    {k \in 1..Len(words) :
        /\ StartsAt(s, i, words[k])
        /\ WordBoundary(s, i) /\ WordBoundary(s, i + Len(words[k]))}

RECURSIVE SubWords(_, _, _, _)
\* re.sub(r'\b(w1|w2|...)\b', repl, s), from position i on
SubWords(s, i, words, repl) ==
    LET hits == {j \in i..Len(s) : WholeWordAt(s, j, words) # {}}
    IN  IF hits = {} THEN SubSeq(s, i, Len(s))
        ELSE LET j == CHOOSE a \in hits : \A b \in hits : a <= b
                 alts == WholeWordAt(s, j, words)
                 k == CHOOSE a \in alts : \A b \in alts : a <= b
             IN  SubSeq(s, i, j - 1) \o repl
                 \o SubWords(s, j + Len(words[k]), words, repl)

RECURSIVE CollapseSpaces(_, _, _)
\* re.sub(r'\s+', ' ', s), over the positions lo..hi: a space after a space
\* is dropped
CollapseSpaces(s, lo, hi) ==
    IF lo > hi THEN ""
    ELSE IF lo = hi
    THEN (IF IsSpace(Char(s, lo)) /\ IsSpace(At(s, lo - 1)) THEN "" ELSE Char(s, lo))
    ELSE LET mid == (lo + hi) \div 2
         IN  CollapseSpaces(s, lo, mid) \o CollapseSpaces(s, mid + 1, hi)

RECURSIVE BlankPunctuation(_)
\* re.sub(r'[^\w\s]', ' ', s)
BlankPunctuation(s) ==
    IF Len(s) = 0 THEN ""
    ELSE IF Len(s) = 1 THEN (IF IsWord(s) \/ IsSpace(s) THEN s ELSE " ")
    ELSE LET half == Len(s) \div 2
         IN  BlankPunctuation(SubSeq(s, 1, half))
             \o BlankPunctuation(SubSeq(s, half + 1, Len(s)))

\* the punctuation blanked before the artifacts are looked for
clean_voice_text_punctuation_first(text) ==
    LET lowered == BlankPunctuation(Strip(Lower(text)))
        spoken == SubWords(lowered, 1, filler_words, "")
    IN  Strip(CollapseSpaces(spoken, 1, Len(spoken)))

clean_voice_text(text) ==
    LET lowered == Strip(Lower(text))
        spoken == SubWords(lowered, 1, filler_words, "")
        spaced == CollapseSpaces(spoken, 1, Len(spoken))
    IN  Strip(BlankPunctuation(spaced))

RECURSIVE CarrierEnd(_, _, _, _)
\* the position after words[k..], each followed by spaces, matched at i;
\* 0 when they do not match
CarrierEnd(s, i, words, k) ==
    IF k > Len(words) THEN i
    ELSE IF StartsAt(s, i, words[k]) /\ IsSpace(At(s, i + Len(words[k])))
    THEN CarrierEnd(s, SpacesEnd(s, i + Len(words[k])), words, k + 1)
    ELSE 0

\* the group of the pattern matched at position i, None when it does not
\* match; when only spaces follow the words, the last of two or more is the
\* group
CarrierGroupAt(pattern, s, i) ==
    LET rest == CarrierEnd(s, i, pattern.words, 1)
    IN  IF rest = 0 THEN None
        ELSE IF rest <= Len(s) THEN Some(SubSeq(s, rest, Len(s)))
        ELSE IF IsSpace(At(s, Len(s) - 1)) THEN Some(" ")
        ELSE None

\* re.search(pattern, text): the group of the leftmost match
CarrierGroup(pattern, s) ==
    LET hits == {i \in 1..Len(s) : CarrierGroupAt(pattern, s, i) # None}
    IN  IF hits = {} THEN None
        ELSE CarrierGroupAt(pattern, s, CHOOSE i \in hits : \A j \in hits : i <= j)

extract_query_content(text) ==
    LET hits == {k \in 1..Len(voice_patterns) : CarrierGroup(voice_patterns[k], text) # None}
    IN  IF hits = {} THEN text
        ELSE Strip(CarrierGroup(voice_patterns[CHOOSE k \in hits : \A j \in hits : k <= j],
                                text)[1])

RECURSIVE CorrectVariations(_, _, _)
\* the inner loop: the variations of one entry from v on, one re.sub each
CorrectVariations(text, entry, v) ==
    IF v > Len(entry.keywords) THEN text
    ELSE CorrectVariations(SubWords(text, 1, <<entry.keywords[v]>>, entry.name),
                           entry, v + 1)

RECURSIVE CorrectEntries(_, _, _)
\* the outer loop over the entries lo..hi of voice_corrections, in order: the
\* first half of the range, then, on its result, the second half
CorrectEntries(text, lo, hi) ==
    IF lo > hi THEN text
    ELSE IF lo = hi THEN CorrectVariations(text, voice_corrections[lo], 1)
    ELSE LET mid == (lo + hi) \div 2
             corrected_text == CorrectEntries(text, lo, mid)
         IN  IF Len(corrected_text) = 0 THEN corrected_text
             ELSE CorrectEntries(corrected_text, mid + 1, hi)

apply_voice_corrections(text) == CorrectEntries(text, 1, Len(voice_corrections))

VOICE == "voice"

process_voice_query(text) ==
    LET cleaned_text == clean_voice_text(text)
        query_content == extract_query_content(cleaned_text)
    IN  [original_text |-> text,
         cleaned_text |-> cleaned_text,
         query_content |-> query_content,
         corrected_query |-> apply_voice_corrections(query_content),
         query_type |-> VOICE]

\* the phrases voice texts are made of
VoicePhrases == {"Um find funny movies", "with tom hank", "i-mean", "you  know",
                 "a , b", "like, show me", "what thriller films", "uh.",
                 "Find", "sci-fi"}

ProcessVoiceQuery ==
    /\ voice_result = NotProcessed
    /\ voice_result' = process_voice_query(voice_text)
    /\ UNCHANGED <<voice_text, assignVars, engineVars, recVars, parseVars, mapperVars, apiVars, boostVars>>

\* process_voice_query calls, one per voice text
InitVoice ==
    /\ InitEngine
    /\ IdleMapper
    /\ IdleBoost
    /\ IdleFilter
    /\ str_hash = [s \in SessionIds |-> 0]
    /\ tfidf_matrix = <<0, 0, 0, 0>>
    /\ rec_call = NoRecCall
    /\ query = ""
    /\ parsed = NoFilters
    /\ voice_text \in QueriesOf(VoicePhrases, MaxPhrases)
    /\ voice_result = NotProcessed

NextVoice == ProcessVoiceQuery

SpecVoice == InitVoice /\ [][NextVoice]_vars

(***************************************************************************)
(* main.search_content                                                     *)
(*                                                                         *)
(* uuid4 gives a string no earlier call gave: the k-th value drawn while   *)
(* the n-th request is handled.  The hash of a string the process has not  *)
(* hashed before is any value, and stays.  The clock (processing time,     *)
(* timestamps) is left out.  The storage is in one condition while a       *)
(* request is handled: both stores take rows, the database refuses them,   *)
(* or the database takes them and the CSV file cannot be appended to.      *)
(***************************************************************************)
TEXT == "text"

UuidDigits == <<"1", "2", "3", "4", "5", "6", "7", "8", "9">>

uuid4(n, k) == "uuid4-" \o UuidDigits[n] \o "-" \o UuidDigits[k]

IoOutcomes == {"ok", "db_fails", "csv_fails"}

\* an impression whose position counts from 0
log_impression_from_zero(event_id, session_id, variant, movie_id, position, filters, request_id) ==
    [event_id |-> event_id, session_id |-> session_id, event_type |-> "impression",
     variant |-> variant, movie_id |-> movie_id, position |-> position - 1,
     filters |-> Some(filters), request_id |-> request_id]

\* EventStore.log_impression: the event it builds
log_impression(event_id, session_id, variant, movie_id, position, filters, request_id) ==
    [event_id |-> event_id, session_id |-> session_id, event_type |-> "impression",
     variant |-> variant, movie_id |-> movie_id, position |-> position,
     filters |-> Some(filters), request_id |-> request_id]

\* EventStore.log_click: the event it builds
log_click(event_id, session_id, variant, movie_id, position, request_id) ==
    [event_id |-> event_id, session_id |-> session_id, event_type |-> "click",
     variant |-> variant, movie_id |-> movie_id, position |-> position,
     filters |-> None, request_id |-> request_id]

\* EventStore.log_event: the rows of the database after the events
log_event_db(rows, events, io) ==
    IF io = "db_fails" THEN rows ELSE rows \o events

\* EventStore.log_event: the rows of the CSV log after the events
log_event_csv(rows, events, io) ==
    IF io = "ok" THEN rows \o events ELSE rows

\* EventStore.log_event: the calls made on it, each with what it returned
log_event_calls(calls, events, io) ==
    calls \o [i \in 1..Len(events) |-> [event |-> events[i], result |-> io = "ok"]]

\* the answer of the handler's except branch
INTERNAL_ERROR == [status |-> 500, detail |-> "Internal server error: "]

SIMULATED_ERROR == [status |-> 500, detail |-> "Simulated server error for testing"]

\* the /debug/last-query handler
get_last_query_debug ==
    IF last_query_info = None
    THEN [status |-> 404, detail |-> "No queries have been processed yet"]
    ELSE [status |-> 200, body |-> last_query_info[1]]

\* what hash() gives for a string the process has not hashed before
FreshHashes == {2, 5}

\* the body of the handler's try block: voice, parsed_filters, session_id and
\* request_id are the values of the handler's locals
search_content_try(request, request_id, session_id, voice, parsed_filters) ==
    LET is_voice == request.query_type = VOICE
    IN  /\ voice_text' = IF is_voice THEN request.query ELSE voice_text
        /\ voice_result' = IF is_voice THEN voice ELSE voice_result
        /\ query' = IF is_voice THEN voice.corrected_query ELSE request.query
        /\ parsed' = parsed_filters
        /\ mapper_filters' = parsed_filters
        /\ \E genres \in Orderings(normalize_genres(parsed_filters.genres)) :
               normalized' = normalize_filters(parsed_filters, genres)
        /\ IF session_id \in DOMAIN str_hash THEN str_hash' = str_hash
           ELSE \E hash_value \in FreshHashes :
                    str_hash' = (session_id :> hash_value) @@ str_hash
        /\ \E variant \in {assign_variant(session_id)'} :
           \E recs \in {get_recommendations(parsed_filters, variant, 10)} :
           LET impressions ==
                   [i \in 1..Len(recs) |->
                       log_impression(uuid4(request_count + 1, 2 + i), session_id,
                                      variant, recs[i].id, i, parsed_filters,
                                      request_id)]
           IN  /\ prev_call' = last_call
               /\ last_call' = [session_id |-> session_id, variant |-> variant,
                                process |-> "current"]
               /\ rec_call' = [filters |-> parsed_filters, variant |-> variant,
                               limit |-> 10, returned |-> TRUE]
               /\ filtered_movies' = filter_movies(parsed_filters)
               /\ recommendations' = recs
               /\ scored_movies' = get_scored_movies(parsed_filters, variant)
               /\ \E io \in IoOutcomes :
                      /\ events_db' = log_event_db(events_db, impressions, io)
                      /\ events_csv' = log_event_csv(events_csv, impressions, io)
                      /\ log_calls' = log_event_calls(log_calls, impressions, io)
               /\ last_query_info' =
                      Some([last_query |-> request.query,
                            parsed_filters |-> parsed_filters,
                            variant |-> variant,
                            result_count |-> Len(recs)])
               /\ response' =
                      [status |-> 200,
                       request_id |-> request_id,
                       session_id |-> session_id,
                       variant |-> variant,
                       parsed_filters |-> parsed_filters,
                       recommendations |-> recs,
                       total_results |-> Len(recs),
                       debug_info |->
                           [normalized_filters |-> normalized',
                            query_type |-> request.query_type,
                            voice_processing |->
                                IF is_voice THEN Some(voice) ELSE None]]
               /\ UNCHANGED <<engineVars, search_results, boostVars>>

search_content(request, x_request_id, fail) ==
    LET n == request_count + 1
        request_id == IF TruthyStr(x_request_id) THEN x_request_id[1] ELSE uuid4(n, 1)
        session_id == IF TruthyStr(request.session_id)
                      THEN request.session_id[1] ELSE uuid4(n, 2)
    IN  /\ request_count' = n
        /\ IF fail = Some(1)
           THEN /\ response' = SIMULATED_ERROR
                /\ UNCHANGED <<assignVars, engineVars, recVars, parseVars, mapperVars,
                               voiceVars, boostVars, events_db, events_csv,
                               log_calls, last_query_info>>
           ELSE \E voice \in {IF request.query_type = VOICE
                              THEN process_voice_query(request.query)
                              ELSE NotProcessed} :
                \E parsed_filters \in
                       {parse_query(IF request.query_type = VOICE
                                    THEN voice.corrected_query ELSE request.query)} :
                \E id \in {session_id}, rid \in {request_id} :
                    search_content_try(request, rid, id, voice, parsed_filters)

\* the /click handler
track_click(request, x_request_id) ==
    LET n == request_count + 1
        request_id == IF TruthyStr(x_request_id) THEN x_request_id[1] ELSE uuid4(n, 1)
        click == log_click(uuid4(n, 2), request.session_id, request.variant,
                           request.movie_id, request.position, request_id)
    IN  /\ request_count' = n
        /\ \E io \in IoOutcomes :
               /\ events_db' = log_event_db(events_db, <<click>>, io)
               /\ events_csv' = log_event_csv(events_csv, <<click>>, io)
               /\ log_calls' = log_event_calls(log_calls, <<click>>, io)
               /\ response' = [status |-> 200, success |-> io = "ok",
                               message |-> IF io = "ok"
                                           THEN "Click tracked successfully"
                                           ELSE "Failed to track click"]
        /\ UNCHANGED <<last_query_info, assignVars, engineVars, recVars, parseVars,
                       mapperVars, voiceVars, boostVars>>

\* the /search requests sent: the body, the X-Request-ID header, ?fail=
SearchCalls ==
    {[request |-> [query |-> "find comedy movies", query_type |-> TEXT,
                   session_id |-> Some("test-session-123")],
      x_request_id |-> None, fail |-> None],
     [request |-> [query |-> "find comedy movies", query_type |-> TEXT,
                   session_id |-> Some("a")],
      x_request_id |-> Some("req-1"), fail |-> None],
     [request |-> [query |-> "find comedy movies", query_type |-> TEXT,
                   session_id |-> Some("b")],
      x_request_id |-> None, fail |-> Some(0)],
     [request |-> [query |-> "find funny movies with tom hanks", query_type |-> VOICE,
                   session_id |-> Some("test-session-456")],
      x_request_id |-> None, fail |-> None],
     [request |-> [query |-> "crime", query_type |-> TEXT, session_id |-> None],
      x_request_id |-> Some("req-2"), fail |-> None],
     [request |-> [query |-> "", query_type |-> TEXT, session_id |-> Some("")],
      x_request_id |-> Some(""), fail |-> None],
     [request |-> [query |-> "find comedy movies", query_type |-> TEXT,
                   session_id |-> Some("test-session-123")],
      x_request_id |-> None, fail |-> Some(1)]}

MaxRequests == 2

Search ==
    /\ request_count < MaxRequests
    /\ \E call \in SearchCalls :
           search_content(call.request, call.x_request_id, call.fail)

\* the /click requests sent: the body and the X-Request-ID header
ClickCalls ==
    {[request |-> [request_id |-> "test-request-123", session_id |-> "test-session-123",
                   movie_id |-> 1, position |-> 1, variant |-> "A"],
      x_request_id |-> None],
     [request |-> [request_id |-> "req-1", session_id |-> "a",
                   movie_id |-> 5, position |-> 2, variant |-> "B"],
      x_request_id |-> Some("req-1")]}

Click ==
    /\ request_count < MaxRequests
    /\ \E call \in ClickCalls : track_click(call.request, call.x_request_id)

\* the service after start-up, in a process whose hash gives "a" to POPULARITY
\* and "b" to SIMILARITY
InitSearch ==
    /\ InitEngine
    /\ InitIdle
    /\ str_hash \in {h \in StrHashes : h["a"] = 2 /\ h["b"] = 5
                                       /\ h["test-session-123"] \in {2, 5}}
    /\ tfidf_matrix = <<60, 240, 240, 30>>
    /\ rec_call = NoRecCall
    /\ query = ""
    /\ parsed = NoFilters

NextSearch == Search \/ Click

SpecSearch == InitSearch /\ [][NextSearch]_vars

(***************************************************************************)
(* Calls on the constructed components, in any order                       *)
(*                                                                         *)
(* get_all_movies hands out the catalog list itself, not a copy, so a      *)
(* method that changed the list it was given would change the catalog.     *)
(***************************************************************************)
\* the catalog list after _filter_movies(filters): the method filters
\* all_movies.copy(), and every step binds a new list
catalog_after_filter_movies_in_place(filters) == filter_movies(filters)

catalog_after_filter_movies(filters) == get_all_movies

CallQueries == {"crime", "find comedy movies"}

CallFilters == {NoFilters,
                [NoFilters EXCEPT !.genres = <<"drama">>, !.runtime_max = Some(160)]}

CallSessionIds == {"a", "b"}

CallLimits == {1, MaxLimit}

CallParseQuery(text) ==
    /\ query' = text
    /\ parsed' = parse_query(text)
    /\ UNCHANGED <<assignVars, engineVars, recVars, mapperVars, voiceVars, apiVars, boostVars>>

CallNormalizeFilters(filters) ==
    /\ mapper_filters' = filters
    /\ \E genres \in Orderings(normalize_genres(filters.genres)) :
           normalized' = normalize_filters(filters, genres)
    /\ UNCHANGED <<assignVars, engineVars, recVars, parseVars, voiceVars, apiVars, boostVars>>

CallFilterMovies(filters) ==
    /\ filtered_movies' = filter_movies(filters)
    /\ catalog' = catalog_after_filter_movies(filters)
    /\ UNCHANGED <<tfidf_matrix, rec_call, recommendations, scored_movies,
                   search_results, assignVars, parseVars, mapperVars, voiceVars,
                   apiVars, boostVars>>

CallGetRecommendations(filters, variant, limit) ==
    /\ rec_call' = [filters |-> filters, variant |-> variant, limit |-> limit,
                    returned |-> TRUE]
    /\ filtered_movies' = filter_movies(filters)
    /\ recommendations' = get_recommendations(filters, variant, limit)
    /\ scored_movies' = get_scored_movies(filters, variant)
    /\ catalog' = catalog_after_filter_movies(filters)
    /\ UNCHANGED <<tfidf_matrix, search_results, assignVars, parseVars, mapperVars,
                   voiceVars, apiVars, boostVars>>

InitCalls ==
    /\ InitEngine
    /\ InitIdle
    /\ str_hash \in {h \in StrHashes : h["a"] = 2 /\ h["b"] = 5
                                       /\ h["test-session-123"] = 0}
    /\ tfidf_matrix \in TfidfInputs
    /\ rec_call = NoRecCall
    /\ query = ""
    /\ parsed = NoFilters

NextCalls ==
    \/ \E text \in CallQueries : CallParseQuery(text)
    \/ \E filters \in CallFilters : CallNormalizeFilters(filters)
    \/ \E session_id \in CallSessionIds : AssignVariant(session_id)
    \/ \E filters \in CallFilters : CallFilterMovies(filters)
    \/ \E filters \in CallFilters, variant \in {POPULARITY, SIMILARITY},
          limit \in CallLimits : CallGetRecommendations(filters, variant, limit)

SpecCalls == InitCalls /\ [][NextCalls]_vars

(***************************************************************************)
(* _calculate_vibe_boost calls                                             *)
(***************************************************************************)
\* the movies of the tests of the boost, rows of the catalog, and movies whose
\* genre tags and overview hold several triggers of one mood
BoostMovies ==
    {[id |-> 1, title |-> "Test Comedy", genre |-> <<"Comedy">>,
      cast |-> <<"Test Actor">>, overview |-> "A funny comedy movie",
      runtime |-> 90, popularity |-> 80, release_year |-> 2020],
     [id |-> 1, title |-> "Test Movie", genre |-> <<"Drama">>,
      cast |-> <<"Test Actor">>, overview |-> "A drama movie",
      runtime |-> 90, popularity |-> 80, release_year |-> 2020],
     [id |-> 2, title |-> "Date Night", genre |-> <<"Romantic Comedy", "Family", "Romance">>,
      cast |-> <<"Test Actor">>,
      overview |-> "A FUN family comedy: entertaining romance, and funnier than most",
      runtime |-> 95, popularity |-> 70, release_year |-> 2010],
     [id |-> 4, title |-> "Gritty", genre |-> <<"Crime-Drama">>,
      cast |-> <<"Test Actor">>, overview |-> "Intense, gritty, intense thriller",
      runtime |-> 100, popularity |-> 60, release_year |-> 2001],
     [id |-> 6, title |-> "Silent", genre |-> <<>>,
      cast |-> <<>>, overview |-> "", runtime |-> 80, popularity |-> 10,
      release_year |-> 1925],
     SampleCatalog[1], SampleCatalog[2], SampleCatalog[3], SampleCatalog[4]}

BoostVibes == {"funny", "serious", "romantic", "exciting", "scary",
               "thought-provoking", "light", "dark", "unknown_vibe", "", "Funny"}

CalculateVibeBoost ==
    /\ ~boost_call.returned
    /\ boost_call' = [boost_call EXCEPT
                          !.returned = TRUE,
                          !.boost = calculate_vibe_boost(boost_call.movie, boost_call.vibe)]
    /\ UNCHANGED <<assignVars, engineVars, recVars, parseVars, mapperVars, voiceVars,
                   apiVars>>

\* _calculate_vibe_boost calls, one per movie and mood
InitBoost ==
    /\ InitEngine
    /\ IdleFilter
    /\ IdleMapper
    /\ IdleVoice
    /\ str_hash = [s \in SessionIds |-> 0]
    /\ tfidf_matrix = <<0, 0, 0, 0>>
    /\ rec_call = NoRecCall
    /\ query = ""
    /\ parsed = NoFilters
    /\ boost_call \in [movie : BoostMovies, vibe : BoostVibes, returned : {FALSE},
                       boost : {0}]

NextBoost == CalculateVibeBoost

SpecBoost == InitBoost /\ [][NextBoost]_vars

(***************************************************************************)
(* The catalog search and the candidate filter, called with one filter set *)
(***************************************************************************)
\* the value of a result list before its call returns: no row of the catalog
NotFiltered ==
    <<[id |-> 0, title |-> "(the call has not returned)", genre |-> <<>>,
       cast |-> <<>>, overview |-> "", runtime |-> 0, popularity |-> 0,
       release_year |-> 0]>>

SearchMovies ==
    /\ search_results = NotFiltered
    /\ search_results' = search_movies(parsed)
    /\ UNCHANGED <<rec_call, filtered_movies, recommendations, scored_movies,
                   assignVars, engineVars, parseVars, mapperVars, voiceVars,
                   apiVars, boostVars>>

FilterMovies ==
    /\ filtered_movies = NotFiltered
    /\ filtered_movies' = filter_movies(parsed)
    /\ UNCHANGED <<rec_call, search_results, recommendations, scored_movies,
                   assignVars, engineVars, parseVars, mapperVars, voiceVars,
                   apiVars, boostVars>>

\* the year bounds of the filter sets: absent, 0 and a year of the catalog's
\* range
YearBoundInputs == {None, Some(0), Some(1995)}

BoundFilterInputs ==
    [genres : {<<>>, <<"drama">>}, actors : {<<>>}, runtime_min : RuntimeMinInputs,
     runtime_max : RuntimeMaxInputs, vibe : {None}, keywords : KeywordInputs,
     year_min : YearBoundInputs, year_max : YearBoundInputs]

InitFilter ==
    /\ InitEngine
    /\ IdleMapper
    /\ IdleVoice
    /\ IdleBoost
    /\ str_hash = [s \in SessionIds |-> 0]
    /\ tfidf_matrix = <<0, 0, 0, 0>>
    /\ rec_call = NoRecCall
    /\ query = ""
    /\ parsed \in BoundFilterInputs
    /\ filtered_movies = NotFiltered
    /\ search_results = NotFiltered

NextFilter == SearchMovies \/ FilterMovies

SpecFilter == InitFilter /\ [][NextFilter]_vars

(***************************************************************************)
(* Properties                                                              *)
(***************************************************************************)
Tags == {POPULARITY, SIMILARITY}

\* C1: within one process assign_variant gives a session identifier the same
\* tag on every call, and the tag is POPULARITY or SIMILARITY.
C1_SameTagWithinProcess ==
    /\ last_call # NoCall => last_call.variant \in Tags
    /\ (/\ last_call.process = "current"
        /\ prev_call.process = "current"
        /\ last_call.session_id = prev_call.session_id)
       => last_call.variant = prev_call.variant

\* two calls for one identifier in one process, under a hash that is odd there
C1_Witness ==
    /\ last_call.process = "current"
    /\ prev_call.process = "current"
    /\ last_call.session_id = prev_call.session_id
    /\ last_call.session_id # ""
    /\ str_hash[last_call.session_id] < 0
    /\ last_call.variant = SIMILARITY

\* C2: assign_variant depends on the characters of the identifier alone, so
\* two processes (a restart between the calls) give one identifier one tag.
C2_SameTagAcrossProcesses ==
    (/\ last_call # NoCall
     /\ prev_call # NoCall
     /\ last_call.session_id = prev_call.session_id)
    => last_call.variant = prev_call.variant

\* the score the popularity strategy gives a returned movie for the call
ScoreOf(movie) == popularity_score(movie, rec_call.filters)

\* C3: for limit > 0 the popularity strategy returns at most limit movies, in
\* order of non-increasing score.
C3_PopularityOrdered ==
    (rec_call.returned /\ rec_call.variant = POPULARITY /\ rec_call.limit > 0)
    => /\ Len(recommendations) <= rec_call.limit
       /\ \A i \in 1..(Len(recommendations) - 1) :
              ScoreOf(recommendations[i]) >= ScoreOf(recommendations[i + 1])

\* a truncated popularity ranking that the boosts reordered: its first movie
\* is not the first candidate, and the scores fall somewhere along it
C3_Witness ==
    /\ rec_call.returned
    /\ rec_call.variant = POPULARITY
    /\ rec_call.limit > 1
    /\ Len(recommendations) = rec_call.limit
    /\ Len(filtered_movies) > rec_call.limit
    /\ recommendations[1] # filtered_movies[1]
    /\ \E i \in 1..(Len(recommendations) - 1) :
           ScoreOf(recommendations[i]) > ScoreOf(recommendations[i + 1])

\* C4: with no candidate left by the filters the popularity strategy returns
\* the empty list, not the catalog.
C4_PopularityEmpty ==
    (rec_call.returned /\ rec_call.variant = POPULARITY /\ filtered_movies = <<>>)
    => recommendations = <<>>

C4_Witness ==
    /\ rec_call.returned
    /\ rec_call.variant = POPULARITY
    /\ rec_call.limit > 0
    /\ catalog # <<>>
    /\ filtered_movies = <<>>
    /\ recommendations = <<>>

InSeq(x, xs) == \E i \in 1..Len(xs) : xs[i] = x

\* C5: the similarity strategy ranks the filtered movies when there are any
\* and the whole catalog otherwise, so for a non-empty catalog and limit > 0
\* it returns something, and nothing outside a non-empty filtered set.
C5_SimilarityFallback ==
    (/\ rec_call.returned
     /\ rec_call.variant = SIMILARITY
     /\ rec_call.limit > 0
     /\ catalog # <<>>)
    => /\ recommendations # <<>>
       /\ \A i \in 1..Len(recommendations) :
              IF filtered_movies # <<>>
              THEN InSeq(recommendations[i], filtered_movies)
              ELSE InSeq(recommendations[i], catalog)

C5_Witness ==
    /\ rec_call.returned
    /\ rec_call.variant = SIMILARITY
    /\ rec_call.limit > 0
    /\ filtered_movies = <<>>
    /\ recommendations # <<>>
    /\ \A i \in 1..Len(recommendations) : InSeq(recommendations[i], catalog)

\* what the claim asks of a retained movie: every present field is satisfied
Passes(m, f) ==
    /\ f.genres # <<>> =>
           \E i \in 1..Len(f.genres) : \E j \in 1..Len(m.genre) :
               Lower(f.genres[i]) = Lower(m.genre[j])
    /\ f.actors # <<>> =>
           \E i \in 1..Len(f.actors) : \E j \in 1..Len(m.cast) :
               Lower(f.actors[i]) = Lower(m.cast[j])
    /\ f.runtime_min # None => m.runtime >= f.runtime_min[1]
    /\ f.runtime_max # None => m.runtime <= f.runtime_max[1]
    /\ f.year_min # None => m.release_year >= f.year_min[1]
    /\ f.year_max # None => m.release_year <= f.year_max[1]
    /\ f.keywords # <<>> =>
           \E i \in 1..Len(f.keywords) :
               Contains(Lower(f.keywords[i]), Lower(m.overview))

\* C6: _filter_movies retains exactly the catalog movies that satisfy every
\* present filter field, and the whole catalog when no field is present.
C6_FilterExact ==
    rec_call.returned
    => /\ \A i \in 1..Len(catalog) :
              InSeq(catalog[i], filtered_movies) <=> Passes(catalog[i], rec_call.filters)
       /\ \A j \in 1..Len(filtered_movies) : InSeq(filtered_movies[j], catalog)
       /\ rec_call.filters = [NoFilters EXCEPT !.vibe = rec_call.filters.vibe]
              => filtered_movies = catalog

\* a call in which one keyword of two occurs in a retained overview and a
\* bound equal to 0 is present
C6_Witness ==
    /\ rec_call.returned
    /\ Len(rec_call.filters.keywords) = 2
    /\ rec_call.filters.runtime_min = Some(0)
    /\ rec_call.filters.genres # <<>>
    /\ filtered_movies # <<>>
    /\ Len(filtered_movies) < Len(catalog)
    /\ \E j \in 1..Len(filtered_movies) :
           ~ Contains(Lower(rec_call.filters.keywords[2]),
                      Lower(filtered_movies[j].overview))

\* the query as _extract_runtime receives it
QueryLower == Strip(Lower(query))

\* the patterns of the list that match the query, by position
MatchingPatterns ==
    {k \in 1..Len(runtime_patterns) :
        RuntimeFirstMatch(runtime_patterns[k], QueryLower) # None}

\* the minutes the k-th pattern extracts from the query
PatternMinutes(k) ==
    MatchMinutes(runtime_patterns[k],
                 RuntimeFirstMatch(runtime_patterns[k], QueryLower)[1])

\* the duration bound is v: one of runtime_min, runtime_max holds it
BoundIs(v) == parsed.runtime_min = Some(v) \/ parsed.runtime_max = Some(v)

\* C7: when several runtime patterns match, the first of the list that matches
\* gives the extracted value and no later one overwrites it.
C7_FirstPatternWins ==
    (parsed # NotParsed /\ MatchingPatterns # {})
    => BoundIs(PatternMinutes(CHOOSE k \in MatchingPatterns :
                                  \A j \in MatchingPatterns : k <= j))

\* C8: the extracted value goes to runtime_max when the query has 'short',
\* 'under' or 'less than', else to runtime_min when it has 'long', 'over' or
\* 'more than', else to runtime_max.
C8_Direction ==
    parsed # NotParsed
    => LET to_max == \/ Contains("short", QueryLower)
                     \/ Contains("under", QueryLower)
                     \/ Contains("less than", QueryLower)
           to_min == /\ ~to_max
                     /\ \/ Contains("long", QueryLower)
                        \/ Contains("over", QueryLower)
                        \/ Contains("more than", QueryLower)
       IN  /\ to_min => parsed.runtime_max = None
           /\ ~to_min => parsed.runtime_min = None
           /\ (MatchingPatterns # {} /\ to_min) => parsed.runtime_min # None
           /\ (MatchingPatterns # {} /\ ~to_min) => parsed.runtime_max # None
           /\ MatchingPatterns = {} =>
                  parsed.runtime_min = None /\ parsed.runtime_max = None
           /\ query = "shorter than 120 minutes" =>
                  parsed.runtime_min = None /\ parsed.runtime_max = Some(120)
           /\ query = "longer than 90 minutes" =>
                  parsed.runtime_min = Some(90) /\ parsed.runtime_max = None

\* a query with words of both kinds and a duration: the value went to the max
C8_Witness ==
    /\ parsed # NotParsed
    /\ Contains("under", QueryLower)
    /\ Contains("over", QueryLower)
    /\ parsed.runtime_max # None
    /\ parsed.runtime_min = None

\* C9: no query gives both runtime_min and runtime_max.
C9_OneBound ==
    parsed # NotParsed => (parsed.runtime_min = None \/ parsed.runtime_max = None)

\* a query in which patterns with and without 'over' match, on two durations
C9_Witness ==
    /\ parsed # NotParsed
    /\ 1 \in MatchingPatterns
    /\ 8 \in MatchingPatterns
    /\ PatternMinutes(1) # PatternMinutes(8)
    /\ parsed.runtime_min # None
    /\ parsed.runtime_max = None

\* queries that give one duration in hours, and the minutes it stands for
HourQueryMinutes ==
    ("under 2 Hours" :> 120) @@ ("Over 2 hours" :> 120) @@
    ("less than 1.5 hours" :> 90) @@ ("more than 3 hours" :> 180) @@
    ("shorter than 2 hours" :> 120) @@ (" 2 hrs" :> 120) @@ ("1.5 hours" :> 90)

\* C10: a duration of N hours or N hrs, with or without a qualifier, sets the
\* bound to N * 60 truncated.
C10_HoursTimesSixty ==
    parsed # NotParsed
    => (query \in DOMAIN HourQueryMinutes => BoundIs(HourQueryMinutes[query]))

\* the positions of the query at which a four-digit year starts
YearsAt(q) ==
    {i \in 1..Len(q) : /\ \A j \in i..(i + 3) : IsDigit(At(q, j))
                       /\ ~IsDigit(At(q, i - 1)) /\ ~IsDigit(At(q, i + 4))}

\* the year at position i is a decade shorthand: an 's' follows its digits
IsDecadeAt(q, i) == At(q, i + 4) = "s"

\* the year at position i follows the word, with one space between
QualifiedBy(q, i, word) ==
    i > Len(word) + 1 /\ SubSeq(q, i - Len(word) - 1, i - 1) = word \o " "

YearAt(q, i) == IntOf(SubSeq(q, i, i + 3))

\* C11: a query whose only year is a decade shorthand gets year_min = the
\* decade start and year_max = the decade start + 9.
C11_DecadeBounds ==
    parsed # NotParsed =>
        \A i \in YearsAt(QueryLower) :
            (YearsAt(QueryLower) = {i} /\ IsDecadeAt(QueryLower, i))
            => /\ parsed.year_min = Some(YearAt(QueryLower, i))
               /\ parsed.year_max = Some(YearAt(QueryLower, i) + 9)

MinQualifiers == {"from", "after", "since"}
MaxQualifiers == {"before", "until"}

RECURSIVE QualifiedYearsFrom(_, _, _)
\* the bounds the qualifier next to each year gives, the years of the query
\* taken left to right from position i
QualifiedYearsFrom(q, i, years) ==
    LET rest == {j \in YearsAt(q) : j >= i}
    IN  IF rest = {} THEN years
        ELSE LET j == CHOOSE a \in rest : \A b \in rest : a <= b
                 y == Some(YearAt(q, j))
             IN  QualifiedYearsFrom(q, j + 4,
                     IF \E w \in MinQualifiers : QualifiedBy(q, j, w)
                     THEN [years EXCEPT !.min = y]
                     ELSE IF \E w \in MaxQualifiers : QualifiedBy(q, j, w)
                     THEN [years EXCEPT !.max = y]
                     ELSE [min |-> y, max |-> y])

\* C12: in a query without decade shorthand a year after 'from', 'after' or
\* 'since' sets year_min only, a year after 'before' or 'until' sets year_max
\* only, and a bare year sets both.
C12_QualifiedYears ==
    (parsed # NotParsed /\ \A i \in YearsAt(QueryLower) : ~IsDecadeAt(QueryLower, i))
    => LET years == QualifiedYearsFrom(QueryLower, 1, [min |-> None, max |-> None])
       IN  parsed.year_min = years.min /\ parsed.year_max = years.max

\* a trigger of the list occurs somewhere in the lowercased query
TriggerOccurs(triggers, q) ==
    \E k \in 1..Len(triggers) : Contains(triggers[k], Lower(q))

\* the names are those of the entries of the mapping with a trigger in the
\* query, and no others
TriggeredNames(mapping, names, q) ==
    /\ \A k \in 1..Len(mapping) :
           (\E j \in 1..Len(names) : Lower(names[j]) = mapping[k].name)
           <=> TriggerOccurs(mapping[k].keywords, q)
    /\ \A j \in 1..Len(names) : \E k \in 1..Len(mapping) : Lower(names[j]) = mapping[k].name

NoDuplicates(names) ==
    \A i, j \in 1..Len(names) : names[i] = names[j] => i = j

\* a letter is a capital exactly when no letter stands before it
IsTitleCase(name) ==
    \A i \in 1..Len(name) :
        IsAlpha(Char(name, i))
        => ((\E k \in 1..26 : Char(UpperCase, k) = Char(name, i))
            <=> ~IsAlpha(At(name, i - 1)))

\* C13: a genre (an actor) is in the result exactly when one of its triggers
\* (variants) occurs in the lowercased query, once and in title case;
\* 'find comedy movies' gives the genre Comedy and no actors.
C13_SubstringTriggers ==
    parsed # NotParsed =>
        /\ TriggeredNames(genre_mapping, parsed.genres, query)
        /\ TriggeredNames(actor_mapping, parsed.actors, query)
        /\ NoDuplicates(parsed.genres) /\ NoDuplicates(parsed.actors)
        /\ \A j \in 1..Len(parsed.genres) : IsTitleCase(parsed.genres[j])
        /\ \A j \in 1..Len(parsed.actors) : IsTitleCase(parsed.actors[j])
        /\ (query = "find comedy movies"
            => parsed.genres = <<"Comedy">> /\ parsed.actors = <<>>)

\* a trigger inside a longer word ('love' in 'lovely') and an actor variant
C13_Witness ==
    /\ query = "lovely sam jackson"
    /\ parsed.genres = <<"Romance">>
    /\ parsed.actors = <<"Samuel L. Jackson">>

\* the mood tags in the order of the mood mapping
MoodOrder == <<"funny", "serious", "romantic", "exciting", "scary",
               "thought-provoking", "light", "dark">>

\* the position of a tag in the order, 0 for no tag at all
MoodRank(vibe) ==
    IF vibe = None THEN 0
    ELSE CHOOSE k \in 1..Len(MoodOrder) : MoodOrder[k] = vibe[1]

\* the mood tags with a trigger in the query
MoodsTriggered(q) ==
    {k \in 1..Len(vibe_keywords) : TriggerOccurs(vibe_keywords[k].keywords, q)}

\* C14: the mood is the first tag of the order funny, serious, romantic,
\* exciting, scary, thought-provoking, light, dark with a trigger in the query,
\* and None when there is no trigger; 'find funny romantic movies' gives funny.
C14_FirstMood ==
    parsed # NotParsed =>
        /\ [k \in 1..Len(vibe_keywords) |-> vibe_keywords[k].name] = MoodOrder
        /\ (MoodsTriggered(query) = {} <=> parsed.vibe = None)
        /\ \A k \in MoodsTriggered(query) :
               MoodRank(parsed.vibe) \in MoodsTriggered(query) /\ MoodRank(parsed.vibe) <= k
        /\ (query = "find funny romantic movies" => parsed.vibe = Some("funny"))

\* a query with triggers of three moods, serious before romantic before dark
C14_Witness ==
    /\ query = "dark intense lovely"
    /\ Cardinality(MoodsTriggered(query)) = 3
    /\ parsed.vibe = Some("serious")

\* the phrases that hold no trigger of any genre, actor or mood
UnknownPhrases == {"xyzzy plugh", "?!", " "}

IsOptional(v) == v = None \/ (Len(v) = 1)

\* parse_query returned filters: six lists and optionals, nothing else
IsFilters(f) ==
    /\ DOMAIN f = DOMAIN NoFilters
    /\ \A name \in {"genres", "actors", "keywords"} : DOMAIN f[name] = 1..Len(f[name])
    /\ \A name \in {"runtime_min", "runtime_max", "year_min", "year_max", "vibe"} :
           IsOptional(f[name])

StandardFor(genre) ==
    {normalized_genres[k].name : k \in
        {j \in 1..Len(normalized_genres) :
            \/ Lower(genre) = Lower(normalized_genres[j].name)
            \/ \E t \in 1..Len(normalized_genres[j].keywords) :
                   normalized_genres[j].keywords[t] = Lower(genre)}}

HasCapital(s) == \E i \in 1..Len(s), k \in 1..26 : Char(s, i) = Char(UpperCase, k)

\* what the claim says of an input f and the dict n returned for it
NormalOf(f, n) ==
    /\ \A i \in 1..Len(f.genres) :
           StandardFor(f.genres[i]) # {}
           => \E j \in 1..Len(n.genres) : n.genres[j] \in StandardFor(f.genres[i])
    /\ \A j \in 1..Len(n.genres) :
           /\ IsTitleCase(n.genres[j])
           /\ \E i \in 1..Len(f.genres) : n.genres[j] \in StandardFor(f.genres[i])
    /\ NoDuplicates(n.genres)
    /\ Len(n.actors) = Len(f.actors) /\ Len(n.keywords) = Len(f.keywords)
    /\ \A i \in 1..Len(f.actors) :
           ~HasCapital(n.actors[i]) /\ Lower(n.actors[i]) = Lower(f.actors[i])
    /\ \A i \in 1..Len(f.keywords) :
           ~HasCapital(n.keywords[i]) /\ Lower(n.keywords[i]) = Lower(f.keywords[i])
    /\ n.runtime_min = f.runtime_min /\ n.runtime_max = f.runtime_max
    /\ n.vibe = f.vibe /\ n.year_min = f.year_min /\ n.year_max = f.year_max

\* C16: normalize_filters leaves its input as it was and returns the standard
\* genre of every input genre once and in title case, the actors and keywords
\* in lower case, and the runtime and year bounds and the vibe as given.
C16_Normalize ==
    [][normalized' # normalized
       => mapper_filters' = mapper_filters /\ NormalOf(mapper_filters, normalized')]_vars

\* three spellings of one genre in, one standard genre out
C16_Witness ==
    /\ mapper_filters.genres = <<"FUNNY", "Comedy", "humor">>
    /\ mapper_filters.actors = <<"Tom Hanks", "Leonardo DiCaprio">>
    /\ normalized.genres = <<"Comedy">>
    /\ normalized.actors = <<"tom hanks", "leonardo dicaprio">>

\* C17: a get_recommendations call with limit <= 0 fails, under either
\* strategy: it does not return a list.
C17_NonPositiveLimitFails ==
    (rec_call.variant \in Tags /\ rec_call.limit <= 0) => ~rec_call.returned

\* what the steps of the claim, taken in its order, make of a voice text: the
\* cleaned text, the query content and the corrected query
VoiceExpected ==
    "Um find funny movies" :> <<"find funny movies", "funny movies", "comedy movies">> @@
    "with tom hank" :> <<"with tom hank", "with tom hank", "with tom hanks">> @@
    "i-mean" :> <<"i mean", "i mean", "i mean">> @@
    "you  know" :> <<"you know", "you know", "you know">> @@
    "a , b" :> <<"a   b", "a   b", "a   b">> @@
    "like, show me" :> <<"show me", "show me", "show me">> @@
    "what thriller films" :> <<"what thriller films", "thriller films", "action movies">> @@
    "uh." :> <<"", "", "">> @@
    "Find" :> <<"find", "find", "find">> @@
    "sci-fi" :> <<"sci fi", "sci fi", "sci-fi">> @@
    "Um find funny movies with tom hank" :>
        <<"find funny movies with tom hank", "funny movies with tom hank",
          "comedy movies with tom hanks">> @@
    "i-mean Um find funny movies" :>
        <<"i mean find funny movies", "funny movies", "comedy movies">> @@
    "you  know what thriller films" :>
        <<"you know what thriller films", "thriller films", "action movies">> @@
    "like, show me what thriller films" :>
        <<"show me what thriller films", "what thriller films", "what action movies">> @@
    "what thriller films Um find funny movies" :>
        <<"what thriller films find funny movies", "funny movies", "comedy movies">> @@
    "Find a , b" :> <<"find a   b", "a   b", "a   b">> @@
    "uh. Find" :> <<"find", "find", "find">>

\* the filler words that are one word
SingleFillers == {"um", "uh", "er", "ah", "like"}

\* lower case, no punctuation, no space at either end
IsCleaned(text) ==
    /\ \A i \in 1..Len(text) : IsWord(Char(text, i)) \/ IsSpace(Char(text, i))
    /\ ~HasCapital(text)
    /\ ~IsSpace(At(text, 1)) /\ ~IsSpace(At(text, Len(text)))

IsSuffix(tail, text) ==
    Len(tail) <= Len(text) /\ SubSeq(text, Len(text) - Len(tail) + 1, Len(text)) = tail

\* C18: process_voice_query lowercases and trims, removes the filler words,
\* collapses whitespace, blanks punctuation, keeps what the first matching
\* carrier pattern of the list captures, and then corrects misheard terms:
\* each text of the table gives what these steps give in this order, the
\* cleaned text of any text holds no one-word filler, and the query content
\* is the end of the cleaned text.
C18_VoiceOrder ==
    voice_result # NotProcessed =>
        /\ voice_text \in DOMAIN VoiceExpected
           => <<voice_result.cleaned_text, voice_result.query_content,
                voice_result.corrected_query>> = VoiceExpected[voice_text]
        /\ IsCleaned(voice_result.cleaned_text)
        /\ \A k \in 1..Len(WordsFrom(voice_result.cleaned_text, 1)) :
               WordsFrom(voice_result.cleaned_text, 1)[k] \notin SingleFillers
        /\ IsSuffix(voice_result.query_content, voice_result.cleaned_text)
        /\ ~IsSpace(At(voice_result.query_content, 1))
        /\ ~Contains(" tom hank ", " " \o voice_result.corrected_query \o " ")

\* 'i mean' survives the fillers because its hyphen is blanked after them;
\* 'um' goes, 'find' is cut off, 'funny' is corrected
C18_Witness ==
    /\ voice_text = "i-mean Um find funny movies"
    /\ voice_result.cleaned_text = "i mean find funny movies"
    /\ voice_result.corrected_query = "comedy movies"

\* the latest request was answered 200 and its body held this text query
AnsweredText(text) ==
    /\ response.status = 200
    /\ response.debug_info.query_type = TEXT
    /\ last_query_info # None
    /\ last_query_info[1].last_query = text

\* C19: a text search for 'find comedy movies' is answered with a list of
\* recommendations that is not empty and with variant A or B, whichever
\* strategy the session identifier is assigned.
C19_ComedySearchNonEmpty ==
    AnsweredText("find comedy movies") =>
        /\ response.variant \in Tags
        /\ response.recommendations # <<>>
        /\ response.total_results = Len(response.recommendations)

Ids(movies) == [i \in 1..Len(movies) |-> movies[i].id]

\* the ids _filter_movies returns when it is the first call on the engine
AloneFiltered(filters) ==
    IF filters = NoFilters THEN <<1, 3, 5, 9>> ELSE <<1, 5>>

\* the ids get_recommendations ranks when it is the first call on the engine
\* and the limit is above the number of candidates
AloneRanking(index, filters, variant) ==
    IF filters = NoFilters
    THEN (IF variant = POPULARITY THEN <<3, 5, 9, 1>> ELSE <<1, 3, 5, 9>>)
    ELSE IF variant = POPULARITY \/ index[1] < index[3] THEN <<5, 1>>
    ELSE <<1, 5>>

\* C20: once the engine is constructed, no parse_query, normalize_filters,
\* assign_variant, _filter_movies or get_recommendations call, in whatever
\* order they come, changes the catalog list, a catalog item or the lexical
\* index, and each call returns what it returns when it runs alone.
C20_CallsLeaveEngine ==
    [][/\ catalog' = catalog
       /\ \A i \in 1..Len(catalog) : catalog'[i] = SampleCatalog[i]
       /\ tfidf_matrix' = tfidf_matrix
       /\ filtered_movies' # filtered_movies =>
              \E filters \in CallFilters : Ids(filtered_movies') = AloneFiltered(filters)
       /\ rec_call'.variant \in Tags =>
              /\ Ids(filtered_movies') = AloneFiltered(rec_call'.filters)
                 \/ rec_call' = rec_call
              /\ Ids(recommendations') =
                     SliceTo(AloneRanking(tfidf_matrix', rec_call'.filters,
                                          rec_call'.variant), rec_call'.limit)]_vars

\* every kind of call has been made, a _filter_movies call last
C20_Witness ==
    /\ parsed.genres # <<>>
    /\ normalized # NotNormalized
    /\ prev_call.variant = POPULARITY /\ last_call.variant = SIMILARITY
    /\ rec_call.variant = SIMILARITY /\ Len(recommendations) = MaxLimit
    /\ Len(filtered_movies) = 2
    /\ catalog = SampleCatalog

RECURSIVE TagsWithTrigger(_, _, _)
\* how many of the genre tags, from the i-th on, contain a trigger
TagsWithTrigger(genre, triggers, i) ==
    IF i > Len(genre) THEN 0
    ELSE (IF TriggerOccurs(triggers, Lower(genre[i])) THEN 1 ELSE 0)
         + TagsWithTrigger(genre, triggers, i + 1)

RECURSIVE TriggersIn(_, _, _)
\* how many of the triggers, from the k-th on, occur in the text
TriggersIn(triggers, text, k) ==
    IF k > Len(triggers) THEN 0
    ELSE (IF Contains(triggers[k], text) THEN 1 ELSE 0)
         + TriggersIn(triggers, text, k + 1)

KnownMoods == {MoodOrder[k] : k \in 1..Len(MoodOrder)}

CatalogPlace(movie) == CHOOSE i \in 1..Len(catalog) : catalog[i].id = movie.id

\* where a movie stands in the list the strategy scored
ScoredPlace(movie) == CHOOSE i \in 1..Len(scored_movies) : scored_movies[i][1] = movie

\* the first of two scored entries is ranked before the second: a higher score,
\* or the same score and an earlier place in the catalog
RankedBefore(a, b) ==
    \/ a[2] > b[2]
    \/ a[2] = b[2] /\ CatalogPlace(a[1]) < CatalogPlace(b[1])

\* C22: in both strategies the items returned are in descending order of
\* score, items of equal score in the order of the catalog (the sort is
\* stable), and the list is cut to limit after the sort: no item left out is
\* ranked before an item returned.
C22_StableSortThenCut ==
    (rec_call.returned /\ rec_call.variant \in Tags /\ rec_call.limit > 0) =>
        LET returned == {ScoredPlace(recommendations[k]) : k \in 1..Len(recommendations)}
        IN  /\ Len(recommendations) = Min(rec_call.limit, Len(scored_movies))
            /\ \A k \in 1..Len(recommendations) :
                   \E i \in 1..Len(scored_movies) : scored_movies[i][1] = recommendations[k]
            /\ \A k, l \in 1..Len(recommendations) :
                   k < l => RankedBefore(scored_movies[ScoredPlace(recommendations[k])],
                                         scored_movies[ScoredPlace(recommendations[l])])
            /\ \A i \in returned, q \in (1..Len(scored_movies)) \ returned :
                   RankedBefore(scored_movies[i], scored_movies[q])

\* two items of one score, the earlier of the catalog returned and the later
\* cut off by the limit
C22_Witness ==
    /\ rec_call.returned /\ rec_call.variant = SIMILARITY /\ rec_call.limit = 1
    /\ Len(recommendations) = 1
    /\ \E q \in 1..Len(scored_movies) :
           /\ scored_movies[q][1] # recommendations[1]
           /\ scored_movies[q][2] = scored_movies[ScoredPlace(recommendations[1])][2]

RECURSIVE YearMatches(_, _, _)
\* the groups re.findall gives for one year pattern from position i on
YearMatches(pattern, q, i) ==
    LET hits == {j \in i..Len(q) : YearMatchAt(pattern, q, j) # None}
    IN  IF hits = {} THEN <<>>
        ELSE LET j == CHOOSE a \in hits : \A b \in hits : a <= b
                 m == YearMatchAt(pattern, q, j)[1]
             IN  <<m.group>> \o YearMatches(pattern, q, m.stop)

MatchingYearPatterns(q) ==
    {k \in 1..Len(year_patterns) : YearMatches(year_patterns[k], q, 1) # <<>>}

\* the last match of the last matching pattern
LastYearMatch(q) ==
    LET k == CHOOSE a \in MatchingYearPatterns(q) : \A b \in MatchingYearPatterns(q) : b <= a
        matches == YearMatches(year_patterns[k], q, 1)
    IN  matches[Len(matches)]

\* C23: when several year patterns match the query, the bounds returned are
\* the ones the last match of the last matching pattern writes, and a bound
\* that match does not write is absent: no earlier write survives.
C23_LastYearMatchWins ==
    (parsed # NotParsed /\ MatchingYearPatterns(QueryLower) # {})
    => LET written == year_step([min |-> None, max |-> None],
                                LastYearMatch(QueryLower), QueryLower)
       IN  parsed.year_min = written.min /\ parsed.year_max = written.max

\* two patterns match 'from 1990 before 2000', the first match writes
\* year_min = 1990 and the last one overwrites it
C23_Witness ==
    /\ parsed # NotParsed
    /\ query = "from 1990 before 2000"
    /\ Cardinality(MatchingYearPatterns(QueryLower)) > 1
    /\ Len(YearMatches(year_patterns[1], QueryLower, 1)) = 2
    /\ parsed.year_min = Some(2000)
    /\ parsed.year_max = None

\* C28: when parse_query sets both year_min and year_max, year_min is at
\* most year_max.
C28_YearRangeNotInverted ==
    (parsed # NotParsed /\ parsed.year_min # None /\ parsed.year_max # None)
    => parsed.year_min[1] <= parsed.year_max[1]

\* a query with a later year before an earlier one, both bounds set
C28_Witness ==
    /\ parsed # NotParsed
    /\ query = "2005 1980s"
    /\ parsed.year_min # None
    /\ parsed.year_max # None
    /\ Len(YearMatches(year_patterns[1], QueryLower, 1)) = 2

\* the duration-closeness boost of a movie for two runtime bounds, in 1/600:
\* 0.2 * (1 - distance / 60) of the distance of its runtime from the midpoint
\* of the bounds, and 0 from 60 minutes on
DurationCloseness(movie, runtime_min, runtime_max) ==
    LET twice_distance == Abs(2 * movie.runtime - (runtime_min + runtime_max))
    IN  IF twice_distance >= 120 THEN 0 ELSE 120 - twice_distance

\* C24: the popularity strategy adds the duration-closeness boost to the
\* score of every candidate when runtime_min and runtime_max are both present,
\* a bound equal to 0 included, and adds nothing for the runtime when either
\* is absent; the boost is 0 from 60 minutes off the midpoint on and at most
\* 0.2.
C24_DurationBoost ==
    (rec_call.returned /\ rec_call.variant = POPULARITY) =>
        \A i \in 1..Len(scored_movies) :
            LET movie == scored_movies[i][1]
                filters == rec_call.filters
                without == popularity_score(movie, [filters EXCEPT !.runtime_min = None,
                                                                   !.runtime_max = None])
                added == scored_movies[i][2] - without
            IN  /\ added >= 0 /\ added <= 120
                /\ IF filters.runtime_min # None /\ filters.runtime_max # None
                   THEN added = DurationCloseness(movie, filters.runtime_min[1],
                                                  filters.runtime_max[1])
                   ELSE added = 0

\* C25: for one filter set, search_movies and _filter_movies keep the same
\* items in the same order, bounds equal to 0 and inverted ranges included.
C25_SearchEqualsFilter ==
    (search_results # NotFiltered /\ filtered_movies # NotFiltered)
    => search_results = filtered_movies

\* the step is a /search request answered 200, a /click request answered
IsSearchAnswer == response'.status = 200 /\ "recommendations" \in DOMAIN response'
IsClickAnswer == response'.status = 200 /\ "success" \in DOMAIN response'

\* the events handed to log_event during the step
Emitted == SubSeq(log_calls', Len(log_calls) + 1, Len(log_calls'))

\* C26: a search answered with n recommendations emits exactly n impression
\* events, the i-th for the i-th recommendation with position i, each with
\* the session id, the variant assigned to the session, the parsed filters
\* and the request id of the answer; with n = 0 it emits none.  A click
\* request emits one click event, which carries no filters.
C26_Impressions ==
    [][ /\ IsSearchAnswer =>
            /\ Len(Emitted) = Len(response'.recommendations)
            /\ \E id \in DOMAIN str_hash' :
                   /\ id = response'.session_id
                   /\ response'.variant = assign_variant(id)'
            /\ \A i \in 1..Len(Emitted) :
                   LET event == Emitted[i].event
                   IN  /\ event.event_type = "impression"
                       /\ event.movie_id = response'.recommendations[i].id
                       /\ event.position = i
                       /\ event.session_id = response'.session_id
                       /\ event.variant = response'.variant
                       /\ event.filters = Some(response'.parsed_filters)
                       /\ event.request_id = response'.request_id
        /\ IsClickAnswer =>
            /\ Len(Emitted) = 1
            /\ Emitted[1].event.event_type = "click"
            /\ Emitted[1].event.filters = None
      ]_vars

\* a search answered with several recommendations, then a click
C26_Witness ==
    /\ Len(log_calls) > 2
    /\ log_calls[1].event.event_type = "impression"
    /\ log_calls[2].event.position = 2
    /\ log_calls[Len(log_calls)].event.event_type = "click"
    /\ "success" \in DOMAIN response

\* a search that is answered with no recommendation and emits nothing
C26_EmptyWitness ==
    /\ response.status = 200
    /\ "recommendations" \in DOMAIN response
    /\ response.recommendations = <<>>
    /\ log_calls = <<>>

\* C27: a search request with fail=1 is answered 500 with the simulated-error
\* detail and changes nothing: no event is logged, and /debug/last-query
\* answers after it what it answered before, the last successful search or
\* 404.
C27_FaultInjection ==
    [][\A call \in SearchCalls :
           (call.fail = Some(1)
            /\ search_content(call.request, call.x_request_id, call.fail))
           => /\ response'.status = 500
              /\ response'.detail = "Simulated server error for testing"
              /\ get_last_query_debug' = get_last_query_debug
              /\ UNCHANGED <<events_db, events_csv, log_calls, last_query_info,
                             assignVars, engineVars, recVars, parseVars,
                             mapperVars, voiceVars>>]_vars

\* a failed request after a search that was answered
C27_Witness ==
    /\ response.status = 500
    /\ request_count = 2
    /\ last_query_info # None
    /\ get_last_query_debug.status = 200
    /\ log_calls # <<>>

\* a failed request as the first request: /debug/last-query answers 404
C27_AbsentWitness ==
    /\ response.status = 500
    /\ last_query_info = None
    /\ get_last_query_debug.status = 404

Recorded(rows, event) == \E k \in 1..Len(rows) : rows[k] = event

\* C29: every event recorded for a session id, impression or click, carries
\* the variant assign_variant gives that session id in this process.
C29_EventVariantIsAssigned ==
    \A k \in 1..Len(events_db) :
        events_db[k].session_id \in DOMAIN str_hash
        => events_db[k].variant = assign_variant(events_db[k].session_id)

\* C30: after a log_event call the event is in the database and in the CSV
\* log when the call returned True, and in neither when it returned False.
C30_StoresAgree ==
    \A k \in 1..Len(log_calls) :
        LET event == log_calls[k].event
        IN  IF log_calls[k].result
            THEN Recorded(events_db, event) /\ Recorded(events_csv, event)
            ELSE ~Recorded(events_db, event) /\ ~Recorded(events_csv, event)

====
